---- MODULE Spec2Model ----
(***************************************************************************)
(* A model of the asymptote chess core: Position (make/unmake, legality),  *)
(* MoveGenerator, the Zobrist Hasher and the incremental part of Eval.     *)
(*                                                                         *)
(* A Bitboard is modelled as the set of its set bits (squares 0..63), so   *)
(* `^` is symmetric difference, `&` intersection, `|` union and `!`        *)
(* complement in 0..63.  A Zobrist hash is modelled as the set of the key  *)
(* names that have been XORed in an odd number of times: the keys are      *)
(* independent random 64-bit words, and two hashes that are equal as such  *)
(* sets are equal as words.                                                *)
(***************************************************************************)
EXTENDS Integers, Sequences, FiniteSets, TLC

(***************************************************************************)
(* bitboard.rs: squares, bitboards and their shifts                        *)
(***************************************************************************)
Squares == 0..63

file(sq) == sq % 8

rank(sq) == sq \div 8

file_rank(f, r) == 8 * r + f

\* Square::forward / backward / left / right: plain index arithmetic.
sq_forward(sq, white, n) == IF white THEN sq + 8 * n ELSE sq - 8 * n

sq_backward(sq, white, n) == sq_forward(sq, ~white, n)

sq_left(sq, n) == sq - n

sq_right(sq, n) == sq + n

to_bb(sq) == IF sq \in Squares THEN {sq} ELSE {}

\* Bitboard ^ Bitboard
Xor(a, b) == (a \ b) \cup (b \ a)

\* Bitboard ^= Square
Toggle(bb, sq) == IF sq \in bb THEN bb \ {sq} ELSE bb \cup to_bb(sq)

Not(bb) == Squares \ bb

\* Bitboard::left(n): towards file a; bits that would wrap are dropped.
left(bb, n) == {s - n : s \in {x \in bb : file(x) >= n}}

\* Bitboard::right(n): towards file h; bits that would wrap are dropped.
right(bb, n) == {s + n : s \in {x \in bb : file(x) < 8 - n}}

\* Bitboard::forward(white, n): shl 8n for White, shr 8n for Black.
forward(bb, white, n) ==
    IF white THEN {s + 8 * n : s \in {x \in bb : x + 8 * n <= 63}}
    ELSE {s - 8 * n : s \in {x \in bb : x - 8 * n >= 0}}

backward(bb, white, n) == forward(bb, ~white, n)

at_least_one(bb) == bb /= {}

more_than_one(bb) == Cardinality(bb) > 1

popcount(bb) == Cardinality(bb)

\* Bitboard & Square used as a bool: non-empty intersection.
Has(bb, sq) == sq \in bb

RANKS == [r \in 0..7 |-> {s \in Squares : rank(s) = r}]

FILES == [f \in 0..7 |-> {s \in Squares : file(s) = f}]

RANK_1 == RANKS[0]
RANK_2 == RANKS[1]
RANK_3 == RANKS[2]
RANK_4 == RANKS[3]
RANK_5 == RANKS[4]
RANK_6 == RANKS[5]
RANK_7 == RANKS[6]
RANK_8 == RANKS[7]

SQUARE_A1 == 0
SQUARE_E1 == 4
SQUARE_H1 == 7
SQUARE_A8 == 56
SQUARE_E8 == 60
SQUARE_H8 == 63

\* Bitboard::squares(): the set bits in ascending index order.
RECURSIVE squares(_)
squares(bb) ==
    IF bb = {} THEN <<>>
    ELSE LET m == CHOOSE x \in bb : \A y \in bb : x <= y
         IN <<m>> \o squares(bb \ {m})

\* The squares a step (df, dr) away from sq that are on the board.
Step(sq, df, dr) ==
    IF file(sq) + df \in 0..7 /\ rank(sq) + dr \in 0..7
    THEN {file_rank(file(sq) + df, rank(sq) + dr)}
    ELSE {}

KNIGHT_ATTACKS(sq) ==
    UNION {Step(sq, d[1], d[2]) : d \in {<<1, 2>>, <<2, 1>>, <<2, -1>>, <<1, -2>>,
                                         <<-1, -2>>, <<-2, -1>>, <<-2, 1>>, <<-1, 2>>}}

KING_ATTACKS(sq) ==
    UNION {Step(sq, d[1], d[2]) : d \in {<<1, 0>>, <<1, 1>>, <<0, 1>>, <<-1, 1>>,
                                         <<-1, 0>>, <<-1, -1>>, <<0, -1>>, <<1, -1>>}}

\* EN_PASSANT_FILES[f]: the files next to file f.
EN_PASSANT_FILES(f) == {s \in Squares : file(s) = f - 1 \/ file(s) = f + 1}

(***************************************************************************)
(* movegen.rs: pieces and sliding attacks                                  *)
(***************************************************************************)
Pawn == 0
Knight == 1
Bishop == 2
Rook == 3
Queen == 4
King == 5
Pieces == 0..5

\* Option<Piece>::None
None == 0 - 1

\* The squares of the ray from sq in direction (df, dr) up to and including
\* the first blocker.
RECURSIVE Ray(_, _, _, _)
Ray(sq, df, dr, blockers) ==
    LET nxt == Step(sq, df, dr)
    IN IF nxt = {} THEN {}
       ELSE LET n == CHOOSE x \in nxt : TRUE
            IN IF n \in blockers THEN {n} ELSE {n} \cup Ray(n, df, dr, blockers)

\* bishop_from: the reference attack set of a bishop, by parallel ray fill.
bishop_fill(from, blockers, white, shiftRight) ==
    LET sh(b, n) == IF shiftRight THEN right(forward(b, white, n), n)
                    ELSE left(forward(b, white, n), n)
        p0 == Not(blockers)
        r1 == {from} \cup (sh({from}, 1) \cap p0)
        p1 == p0 \cap sh(p0, 1)
        r2 == r1 \cup (sh(r1, 2) \cap p1)
        p2 == p1 \cap sh(p1, 2)
        r3 == r2 \cup (sh(r2, 4) \cap p2)
    IN sh(r3, 1)

bishop_from(from, blockers) ==
    bishop_fill(from, blockers, TRUE, TRUE) \cup bishop_fill(from, blockers, FALSE, TRUE)
    \cup bishop_fill(from, blockers, FALSE, FALSE) \cup bishop_fill(from, blockers, TRUE, FALSE)

\* rook_from: the reference attack set of a rook, by parallel ray fill.
rook_fill(from, blockers, dir) ==
    LET sh(b, n) == CASE dir = "north" -> forward(b, TRUE, n)
                      [] dir = "south" -> backward(b, TRUE, n)
                      [] dir = "west" -> left(b, n)
                      [] OTHER -> right(b, n)
        p0 == Not(blockers)
        r1 == {from} \cup (sh({from}, 1) \cap p0)
        p1 == p0 \cap sh(p0, 1)
        r2 == r1 \cup (sh(r1, 2) \cap p1)
        p2 == p1 \cap sh(p1, 2)
        r3 == r2 \cup (sh(r2, 4) \cap p2)
    IN sh(r3, 1)

rook_from(from, blockers) ==
    rook_fill(from, blockers, "north") \cup rook_fill(from, blockers, "south")
    \cup rook_fill(from, blockers, "west") \cup rook_fill(from, blockers, "east")

\* get_bishop_attacks_from: MAGIC_TABLE[BISHOP_ATTACKS[from].index(blockers)].
\* The table holds, for every occupancy of the bishop's rays, the squares of
\* the four diagonals up to and including the first blocker.
get_bishop_attacks_from(from, blockers) ==
    Ray(from, 1, 1, blockers) \cup Ray(from, 1, -1, blockers)
    \cup Ray(from, -1, -1, blockers) \cup Ray(from, -1, 1, blockers)

\* get_rook_attacks_from: MAGIC_TABLE[ROOK_ATTACKS[from].index(blockers)].
get_rook_attacks_from(from, blockers) ==
    Ray(from, 0, 1, blockers) \cup Ray(from, 0, -1, blockers)
    \cup Ray(from, -1, 0, blockers) \cup Ray(from, 1, 0, blockers)

(***************************************************************************)
(* position.rs: Position, IrreversibleDetails, Move                        *)
(***************************************************************************)
CASTLE_WHITE_KSIDE == 1
CASTLE_WHITE_QSIDE == 2
CASTLE_BLACK_KSIDE == 4
CASTLE_BLACK_QSIDE == 8

\* The sentinel of details.en_passant: no en-passant capture possible.
NO_EP == 255

\* bool as usize
b2i(b) == IF b THEN 1 ELSE 0

\* castling & bit > 0, on the 4-bit mask
HasBit(mask, bit) == (mask \div bit) % 2 = 1

\* castling &= !bit
ClearBit(mask, bit) == IF HasBit(mask, bit) THEN mask - bit ELSE mask

\* A variant of IncU8 that leaves the clock where it is.
IncU8_stuck(h) == h % 256

\* halfmove is a u8: `+= 1` in a build without overflow checks.
IncU8(h) == (h + 1) % 256

Mv(f, t, p, c, pr, ep) ==
    [from |-> f, to |-> t, piece |-> p, captured |-> c, promoted |-> pr, en_passant |-> ep]

pawns(pos) == pos.bb[Pawn]
knights(pos) == pos.bb[Knight]
bishops(pos) == pos.bb[Bishop]
rooks(pos) == pos.bb[Rook]
queens(pos) == pos.bb[Queen]
kings(pos) == pos.bb[King]

king_sq(pos, white) == pos.king_sq[b2i(white)]

us(pos, white) == pos.pieces[b2i(white)]

them(pos, white) == pos.pieces[1 - b2i(white)]

\* A variant of Recompute with the two entries of pieces[] exchanged.
Recompute_swapped(pos) ==
    LET all == pos.bb[Pawn] \cup pos.bb[Knight] \cup pos.bb[Bishop]
               \cup pos.bb[Rook] \cup pos.bb[Queen] \cup pos.bb[King]
    IN [pos EXCEPT !.all_pieces = all,
                   !.pieces = (0 :> (all \cap pos.color)) @@ (1 :> (all \ pos.color))]

\* The tail of make_move and unmake_move: all_pieces and pieces[] recomputed
\* from the six piece bitboards and color.
Recompute(pos) ==
    LET all == pos.bb[Pawn] \cup pos.bb[Knight] \cup pos.bb[Bishop]
               \cup pos.bb[Rook] \cup pos.bb[Queen] \cup pos.bb[King]
    IN [pos EXCEPT !.all_pieces = all,
                   !.pieces = (0 :> (all \ pos.color)) @@ (1 :> (all \cap pos.color))]

\* A variant of NewEpCreated that sets the file after every double push,
\* whether or not an enemy pawn stands next to the destination.
NewEpCreated_any_double_push(pos, mov) ==
    LET wtm == pos.white_to_move
        rank2 == IF wtm THEN RANK_2 ELSE RANK_7
        rank4 == IF wtm THEN RANK_4 ELSE RANK_5
    IN /\ Has(pawns(pos) \cap rank2, mov.from)
       /\ Has(rank4, mov.to)

\* The en-passant test shared by Position::make_move and Hasher::make_move:
\* a pawn leaves its start rank for the fourth rank and an enemy pawn stands
\* next to the destination.
NewEpCreated(pos, mov) ==
    LET wtm == pos.white_to_move
        rank2 == IF wtm THEN RANK_2 ELSE RANK_7
        rank4 == IF wtm THEN RANK_4 ELSE RANK_5
        tp == them(pos, wtm) \cap pawns(pos)
    IN /\ Has(pawns(pos) \cap rank2, mov.from)
       /\ Has(rank4, mov.to)
       /\ Has(left(tp, 1) \cup right(tp, 1), mov.to)

\* A variant of CastlingAfter that looks at the square a move leaves only:
\* capturing a rook on its corner keeps the right.
CastlingAfter_from_only(castling, wtm, mov) ==
    LET c0 == IF mov.piece = King
              THEN IF wtm
                   THEN ClearBit(ClearBit(castling, CASTLE_WHITE_KSIDE), CASTLE_WHITE_QSIDE)
                   ELSE ClearBit(ClearBit(castling, CASTLE_BLACK_KSIDE), CASTLE_BLACK_QSIDE)
              ELSE castling
        c1 == IF mov.from = SQUARE_A1 THEN ClearBit(c0, CASTLE_WHITE_QSIDE) ELSE c0
        c2 == IF mov.from = SQUARE_H1 THEN ClearBit(c1, CASTLE_WHITE_KSIDE) ELSE c1
        c3 == IF mov.from = SQUARE_A8 THEN ClearBit(c2, CASTLE_BLACK_QSIDE) ELSE c2
    IN IF mov.from = SQUARE_H8 THEN ClearBit(c3, CASTLE_BLACK_KSIDE) ELSE c3

\* The castling mask after mov, as make_move computes it.
CastlingAfter(castling, wtm, mov) ==
    LET c0 == IF mov.piece = King
              THEN IF wtm
                   THEN ClearBit(ClearBit(castling, CASTLE_WHITE_KSIDE), CASTLE_WHITE_QSIDE)
                   ELSE ClearBit(ClearBit(castling, CASTLE_BLACK_KSIDE), CASTLE_BLACK_QSIDE)
              ELSE castling
        c1 == IF mov.from = SQUARE_A1 \/ mov.to = SQUARE_A1
              THEN ClearBit(c0, CASTLE_WHITE_QSIDE) ELSE c0
        c2 == IF mov.from = SQUARE_H1 \/ mov.to = SQUARE_H1
              THEN ClearBit(c1, CASTLE_WHITE_KSIDE) ELSE c1
        c3 == IF mov.from = SQUARE_A8 \/ mov.to = SQUARE_A8
              THEN ClearBit(c2, CASTLE_BLACK_QSIDE) ELSE c2
    IN IF mov.from = SQUARE_H8 \/ mov.to = SQUARE_H8
       THEN ClearBit(c3, CASTLE_BLACK_KSIDE) ELSE c3

\* Position::make_move
make_move(pos, mov) ==
    LET wtm == pos.white_to_move
        ep == IF NewEpCreated(pos, mov) THEN file(mov.from) ELSE NO_EP
        h1 == IncU8(pos.details.halfmove)
        \* bb[piece] ^= from
        bb1 == [pos.bb EXCEPT ![mov.piece] = Toggle(@, mov.from)]
        capsq == IF mov.en_passant THEN sq_backward(mov.to, wtm, 1) ELSE mov.to
        \* the captured piece leaves the board
        bb2 == IF mov.captured /= None
               THEN IF mov.en_passant
                    THEN [bb1 EXCEPT ![Pawn] = Toggle(@, capsq)]
                    ELSE [bb1 EXCEPT ![mov.captured] = Toggle(@, capsq)]
               ELSE bb1
        col1 == IF mov.captured /= None /\ ~wtm THEN Toggle(pos.color, capsq) ELSE pos.color
        h2 == IF mov.captured /= None THEN 0 ELSE h1
        \* the moved (or promoted) piece arrives
        bb3 == IF mov.promoted /= None
               THEN [bb2 EXCEPT ![mov.promoted] = Toggle(@, mov.to)]
               ELSE [bb2 EXCEPT ![mov.piece] = Toggle(@, mov.to)]
        h3 == IF mov.piece = Pawn THEN 0 ELSE h2
        kside == mov.piece = King /\ sq_right(mov.from, 2) = mov.to
        qside == mov.piece = King /\ ~kside /\ sq_left(mov.from, 2) = mov.to
        rookFrom == IF kside THEN sq_right(mov.to, 1) ELSE sq_left(mov.to, 2)
        rookTo == IF kside THEN sq_left(mov.to, 1) ELSE sq_right(mov.to, 1)
        bb4 == IF kside \/ qside
               THEN [bb3 EXCEPT ![Rook] = Toggle(Toggle(@, rookFrom), rookTo)]
               ELSE bb3
        col2 == IF (kside \/ qside) /\ wtm THEN Toggle(Toggle(col1, rookFrom), rookTo) ELSE col1
        ksq == IF mov.piece = King THEN [pos.king_sq EXCEPT ![b2i(wtm)] = mov.to]
               ELSE pos.king_sq
        col3 == IF wtm THEN Toggle(Toggle(col2, mov.to), mov.from) ELSE col2
    IN Recompute([pos EXCEPT
           !.details = [halfmove |-> h3, en_passant |-> ep,
                        castling |-> CastlingAfter(pos.details.castling, wtm, mov)],
           !.bb = bb4,
           !.color = col3,
           !.king_sq = ksq,
           !.fullmove = IF wtm THEN @ ELSE @ + 1,
           !.white_to_move = ~wtm])

\* A variant of unmake_color that, unmaking an en-passant capture by Black,
\* gives the colour bit back on the destination square instead of on the
\* square of the captured pawn.
unmake_color_ep_on_to(color, mov, unmaking_white_move) ==
    LET col1 == IF unmaking_white_move THEN Toggle(Toggle(color, mov.from), mov.to)
                ELSE color
        col2 == IF mov.captured /= None /\ ~unmaking_white_move
                THEN Toggle(col1, mov.to) ELSE col1
        kside == mov.piece = King /\ sq_right(mov.from, 2) = mov.to
        qside == mov.piece = King /\ ~kside /\ sq_left(mov.from, 2) = mov.to
        rookFrom == IF kside THEN sq_right(mov.to, 1) ELSE sq_left(mov.to, 2)
        rookTo == IF kside THEN sq_left(mov.to, 1) ELSE sq_right(mov.to, 1)
    IN IF (kside \/ qside) /\ unmaking_white_move
       THEN Toggle(Toggle(col2, rookFrom), rookTo) ELSE col2

\* Position::unmake_move, its updates of `color`: the mover's two squares
\* for White, the captured piece's square for Black, the castling rook's
\* two squares for White.
unmake_color(color, mov, unmaking_white_move) ==
    LET col1 == IF unmaking_white_move THEN Toggle(Toggle(color, mov.from), mov.to)
                ELSE color
        capsq == IF mov.en_passant THEN sq_backward(mov.to, unmaking_white_move, 1) ELSE mov.to
        col2 == IF mov.captured /= None /\ ~unmaking_white_move THEN Toggle(col1, capsq) ELSE col1
        kside == mov.piece = King /\ sq_right(mov.from, 2) = mov.to
        qside == mov.piece = King /\ ~kside /\ sq_left(mov.from, 2) = mov.to
        rookFrom == IF kside THEN sq_right(mov.to, 1) ELSE sq_left(mov.to, 2)
        rookTo == IF kside THEN sq_left(mov.to, 1) ELSE sq_right(mov.to, 1)
    IN IF (kside \/ qside) /\ unmaking_white_move
       THEN Toggle(Toggle(col2, rookFrom), rookTo) ELSE col2

\* Position::unmake_move
unmake_move(pos, mov, irreversible_details) ==
    LET unmaking_white_move == ~pos.white_to_move
        bb1 == [pos.bb EXCEPT ![mov.piece] = Toggle(@, mov.from)]
        capsq == IF mov.en_passant THEN sq_backward(mov.to, unmaking_white_move, 1) ELSE mov.to
        bb2 == IF mov.captured /= None
               THEN IF mov.en_passant
                    THEN [bb1 EXCEPT ![Pawn] = Toggle(@, capsq)]
                    ELSE [bb1 EXCEPT ![mov.captured] = Toggle(@, capsq)]
               ELSE bb1
        bb3 == IF mov.promoted /= None
               THEN [bb2 EXCEPT ![mov.promoted] = Toggle(@, mov.to)]
               ELSE [bb2 EXCEPT ![mov.piece] = Toggle(@, mov.to)]
        kside == mov.piece = King /\ sq_right(mov.from, 2) = mov.to
        qside == mov.piece = King /\ ~kside /\ sq_left(mov.from, 2) = mov.to
        rookFrom == IF kside THEN sq_right(mov.to, 1) ELSE sq_left(mov.to, 2)
        rookTo == IF kside THEN sq_left(mov.to, 1) ELSE sq_right(mov.to, 1)
        bb4 == IF kside \/ qside
               THEN [bb3 EXCEPT ![Rook] = Toggle(Toggle(@, rookFrom), rookTo)]
               ELSE bb3
        ksq == IF mov.piece = King
               THEN [pos.king_sq EXCEPT ![b2i(unmaking_white_move)] = mov.from]
               ELSE pos.king_sq
    IN Recompute([pos EXCEPT
           !.details = irreversible_details,
           !.white_to_move = unmaking_white_move,
           !.color = unmake_color(pos.color, mov, unmaking_white_move),
           !.fullmove = IF unmaking_white_move THEN @ ELSE @ - 1,
           !.bb = bb4,
           !.king_sq = ksq])

\* Position::make_nullmove
make_nullmove(pos) ==
    [pos EXCEPT !.white_to_move = ~@,
                !.details = [@ EXCEPT !.en_passant = NO_EP, !.halfmove = IncU8(@)]]

\* Position::unmake_nullmove
unmake_nullmove(pos, irreversible_details) ==
    [pos EXCEPT !.white_to_move = ~@, !.details = irreversible_details]

\* Position::find_piece
find_piece(pos, at) ==
    IF Has(pawns(pos), at) THEN Pawn
    ELSE IF Has(knights(pos), at) THEN Knight
    ELSE IF Has(bishops(pos), at) THEN Bishop
    ELSE IF Has(rooks(pos), at) THEN Rook
    ELSE IF Has(queens(pos), at) THEN Queen
    ELSE IF Has(kings(pos), at) THEN King
    ELSE None

\* Position::is_attacked: is sq attacked by the side not to move
is_attacked(pos, sq) ==
    LET wtm == pos.white_to_move
        th == them(pos, wtm)
    IN \/ at_least_one(get_bishop_attacks_from(sq, pos.all_pieces)
                       \cap (bishops(pos) \cup queens(pos)) \cap th)
       \/ at_least_one(get_rook_attacks_from(sq, pos.all_pieces)
                       \cap (rooks(pos) \cup queens(pos)) \cap th)
       \/ at_least_one(KNIGHT_ATTACKS(sq) \cap knights(pos) \cap th)
       \/ Has(left(backward(pawns(pos) \cap th, wtm, 1), 1), sq)
       \/ Has(right(backward(pawns(pos) \cap th, wtm, 1), 1), sq)
       \/ at_least_one(KING_ATTACKS(sq) \cap kings(pos) \cap th)

\* Position::in_check
in_check(pos) == is_attacked(pos, king_sq(pos, pos.white_to_move))

\* A variant of move_will_check that keeps the old occupancy: the squares
\* the move vacates still block.
move_will_check_on_old_occupancy(pos, mov) ==
    LET wtm == pos.white_to_move
        u == us(pos, wtm)
        pawns0 == pawns(pos) \cap u
        knights0 == knights(pos) \cap u
        bishops0 == (bishops(pos) \cup queens(pos)) \cap u
        rooks0 == (rooks(pos) \cup queens(pos)) \cap u
        Moved(bb) == Toggle(bb, mov.from) \cup to_bb(mov.to)
        all_pieces == pos.all_pieces
        pawns1 == IF mov.piece /= Pawn THEN pawns0
                  ELSE IF mov.promoted /= None THEN Toggle(Moved(pawns0), mov.to)
                  ELSE Moved(pawns0)
        knights1 == IF mov.piece = Knight THEN Moved(knights0)
                    ELSE IF mov.piece = Pawn /\ mov.promoted = Knight
                    THEN knights0 \cup to_bb(mov.to)
                    ELSE knights0
        bishops1 == IF mov.piece \in {Bishop, Queen} THEN Moved(bishops0)
                    ELSE IF mov.piece = Pawn /\ mov.promoted \in {Bishop, Queen}
                    THEN bishops0 \cup to_bb(mov.to)
                    ELSE bishops0
        rooks1 == IF mov.piece \in {Rook, Queen} THEN Moved(rooks0)
                  ELSE IF mov.piece = Pawn /\ mov.promoted \in {Rook, Queen}
                  THEN rooks0 \cup to_bb(mov.to)
                  ELSE rooks0
        their_king == king_sq(pos, ~wtm)
    IN \/ at_least_one(KNIGHT_ATTACKS(their_king) \cap knights1)
       \/ at_least_one(get_bishop_attacks_from(their_king, all_pieces) \cap bishops1)
       \/ at_least_one(get_rook_attacks_from(their_king, all_pieces) \cap rooks1)
       \/ Has(forward(left(pawns1, 1) \cup right(pawns1, 1), wtm, 1), their_king)

\* Position::move_will_check
move_will_check(pos, mov) ==
    LET wtm == pos.white_to_move
        u == us(pos, wtm)
        pawns0 == pawns(pos) \cap u
        knights0 == knights(pos) \cap u
        bishops0 == (bishops(pos) \cup queens(pos)) \cap u
        rooks0 == (rooks(pos) \cup queens(pos)) \cap u
        \* bb ^= mov.from; bb |= mov.to
        Moved(bb) == Toggle(bb, mov.from) \cup to_bb(mov.to)
        kside == mov.piece = King /\ mov.to = mov.from + 2
        qside == mov.piece = King /\ ~kside /\ mov.to = mov.from - 2
        all0 == Moved(pos.all_pieces)
        all_pieces ==
            IF mov.piece = Pawn /\ mov.en_passant
            THEN Toggle(all0, sq_backward(mov.to, wtm, 1))
            ELSE IF kside THEN Toggle(all0, mov.to + 1) \cup to_bb(mov.to - 1)
            ELSE IF qside THEN Toggle(all0, mov.to - 2) \cup to_bb(mov.to + 1)
            ELSE all0
        pawns1 == IF mov.piece /= Pawn THEN pawns0
                  ELSE IF mov.promoted /= None THEN Toggle(Moved(pawns0), mov.to)
                  ELSE Moved(pawns0)
        knights1 == IF mov.piece = Knight THEN Moved(knights0)
                    ELSE IF mov.piece = Pawn /\ mov.promoted = Knight
                    THEN knights0 \cup to_bb(mov.to)
                    ELSE knights0
        bishops1 == IF mov.piece \in {Bishop, Queen} THEN Moved(bishops0)
                    ELSE IF mov.piece = Pawn /\ mov.promoted \in {Bishop, Queen}
                    THEN bishops0 \cup to_bb(mov.to)
                    ELSE bishops0
        rooks1 == IF mov.piece \in {Rook, Queen} THEN Moved(rooks0)
                  ELSE IF mov.piece = Pawn /\ mov.promoted \in {Rook, Queen}
                  THEN rooks0 \cup to_bb(mov.to)
                  ELSE IF kside THEN Toggle(rooks0, mov.to + 1) \cup to_bb(mov.to - 1)
                  ELSE IF qside THEN Toggle(rooks0, mov.to - 2) \cup to_bb(mov.to + 1)
                  ELSE rooks0
        their_king == king_sq(pos, ~wtm)
    IN \/ at_least_one(KNIGHT_ATTACKS(their_king) \cap knights1)
       \/ at_least_one(get_bishop_attacks_from(their_king, all_pieces) \cap bishops1)
       \/ at_least_one(get_rook_attacks_from(their_king, all_pieces) \cap rooks1)
       \/ Has(forward(left(pawns1, 1) \cup right(pawns1, 1), wtm, 1), their_king)

\* Position::move_is_pseudo_legal
move_is_pseudo_legal(pos, mov) ==
    LET wtm == pos.white_to_move
        own == us(pos, wtm)
        ahead == to_bb(sq_forward(mov.from, wtm, 1))
        capture_targets == LET both == ahead \cup left(ahead, 1)
                               all3 == both \cup right(both, 1)
                           IN (all3 \ ahead) \cup (ahead \ all3)
        targets1 == IF mov.captured /= None THEN capture_targets ELSE ahead
        start_rank == IF wtm THEN RANK_2 ELSE RANK_7
        possible_targets == targets1 \cup forward(targets1 \cap start_rank, wtm, 1)
        attacks_to(bb) == Has(bb, mov.to)
    IN IF ~Has(own, mov.from) THEN FALSE
       ELSE IF Has(own, mov.to) THEN FALSE
       ELSE IF find_piece(pos, mov.from) /= mov.piece THEN FALSE
       ELSE IF find_piece(pos, mov.to) /= mov.captured /\ ~mov.en_passant THEN FALSE
       ELSE IF mov.piece /= Pawn /\ (mov.en_passant \/ mov.promoted /= None) THEN FALSE
       ELSE IF mov.piece = Pawn
       THEN IF mov.en_passant
            THEN IF pos.details.en_passant = NO_EP THEN FALSE
                 ELSE LET ep_capturers_rank == 3 + b2i(wtm)
                          ep_square == file_rank(pos.details.en_passant, ep_capturers_rank)
                          their_pawns == pawns(pos) \ own
                      IN mov.to = sq_forward(ep_square, wtm, 1) /\ Has(their_pawns, ep_square)
            ELSE IF ~Has(possible_targets, mov.to) THEN FALSE
            ELSE IF Has(RANK_1 \cup RANK_8, mov.to) THEN mov.promoted /= None
            ELSE TRUE
       ELSE IF mov.piece = Knight THEN attacks_to(KNIGHT_ATTACKS(mov.from))
       ELSE IF mov.piece = Bishop
       THEN attacks_to(get_bishop_attacks_from(mov.from, pos.all_pieces))
       ELSE IF mov.piece = Rook
       THEN attacks_to(get_rook_attacks_from(mov.from, pos.all_pieces))
       ELSE IF mov.piece = Queen
       THEN attacks_to(get_bishop_attacks_from(mov.from, pos.all_pieces)
                       \cup get_rook_attacks_from(mov.from, pos.all_pieces))
       ELSE IF mov.to = sq_right(mov.from, 2)
       THEN IF wtm
            THEN /\ HasBit(pos.details.castling, CASTLE_WHITE_KSIDE)
                 /\ pos.all_pieces \cap {5, 6} = {}
                 /\ Has(rooks(pos) \cap own, SQUARE_H1)
            ELSE /\ HasBit(pos.details.castling, CASTLE_BLACK_KSIDE)
                 /\ pos.all_pieces \cap {61, 62} = {}
                 /\ Has(rooks(pos) \cap own, SQUARE_H8)
       ELSE IF mov.to = sq_left(mov.from, 2)
       THEN IF wtm
            THEN /\ HasBit(pos.details.castling, CASTLE_WHITE_QSIDE)
                 /\ pos.all_pieces \cap {1, 2, 3} = {}
                 /\ Has(rooks(pos) \cap own, SQUARE_A1)
            ELSE /\ HasBit(pos.details.castling, CASTLE_BLACK_QSIDE)
                 /\ pos.all_pieces \cap {57, 58, 59} = {}
                 /\ Has(rooks(pos) \cap own, SQUARE_A8)
       ELSE attacks_to(KING_ATTACKS(mov.from))

\* eval.rs: the piece scores Piece::value reads
PAWN_SCORE == 100

KNIGHT_SCORE == 300

BISHOP_SCORE == 320

ROOK_SCORE == 500

QUEEN_SCORE == 1000

\* Piece::value; a king counts 10000
value(piece) ==
    CASE piece = Pawn -> PAWN_SCORE
      [] piece = Knight -> KNIGHT_SCORE
      [] piece = Bishop -> BISHOP_SCORE
      [] piece = Rook -> ROOK_SCORE
      [] piece = Queen -> QUEEN_SCORE
      [] piece = King -> 10000

\* A variant of get_cheapest_captures whose sliders look along the lines of
\* the full board: a piece that has captured still blocks.
get_cheapest_captures_on_full_board(pos, sq, allowed_pieces, white) ==
    LET u == us(pos, white) \cap allowed_pieces
        pawn_capturers ==
            pawns(pos) \cap u
            \cap (left(backward(to_bb(sq), white, 1), 1)
                  \cup right(backward(to_bb(sq), white, 1), 1))
        bishop_attacker_squares == u \cap get_bishop_attacks_from(sq, pos.all_pieces)
        rook_attacker_squares == u \cap get_rook_attacks_from(sq, pos.all_pieces)
    IN IF at_least_one(pawn_capturers) THEN <<Pawn, pawn_capturers>>
       ELSE IF at_least_one(knights(pos) \cap u \cap KNIGHT_ATTACKS(sq))
       THEN <<Knight, knights(pos) \cap u \cap KNIGHT_ATTACKS(sq)>>
       ELSE IF at_least_one(bishops(pos) \cap bishop_attacker_squares)
       THEN <<Bishop, bishops(pos) \cap bishop_attacker_squares>>
       ELSE IF at_least_one(rooks(pos) \cap rook_attacker_squares)
       THEN <<Rook, rooks(pos) \cap rook_attacker_squares>>
       ELSE IF at_least_one(queens(pos) \cap u
                            \cap (bishop_attacker_squares \cup rook_attacker_squares))
       THEN <<Queen, queens(pos) \cap u
                     \cap (bishop_attacker_squares \cup rook_attacker_squares)>>
       ELSE <<King, kings(pos) \cap u \cap KING_ATTACKS(sq)>>

\* Position::get_cheapest_captures: the cheapest piece type of side `white`
\* that attacks sq over the occupancy allowed_pieces, and where its pieces
\* stand.
get_cheapest_captures(pos, sq, allowed_pieces, white) ==
    LET u == us(pos, white) \cap allowed_pieces
        pawn_capturers ==
            pawns(pos) \cap u
            \cap (left(backward(to_bb(sq), white, 1), 1)
                  \cup right(backward(to_bb(sq), white, 1), 1))
        bishop_attacker_squares == u \cap get_bishop_attacks_from(sq, allowed_pieces)
        rook_attacker_squares == u \cap get_rook_attacks_from(sq, allowed_pieces)
    IN IF at_least_one(pawn_capturers) THEN <<Pawn, pawn_capturers>>
       ELSE IF at_least_one(knights(pos) \cap u \cap KNIGHT_ATTACKS(sq))
       THEN <<Knight, knights(pos) \cap u \cap KNIGHT_ATTACKS(sq)>>
       ELSE IF at_least_one(bishops(pos) \cap bishop_attacker_squares)
       THEN <<Bishop, bishops(pos) \cap bishop_attacker_squares>>
       ELSE IF at_least_one(rooks(pos) \cap rook_attacker_squares)
       THEN <<Rook, rooks(pos) \cap rook_attacker_squares>>
       ELSE IF at_least_one(queens(pos) \cap u
                            \cap (bishop_attacker_squares \cup rook_attacker_squares))
       THEN <<Queen, queens(pos) \cap u
                     \cap (bishop_attacker_squares \cup rook_attacker_squares)>>
       ELSE <<King, kings(pos) \cap u \cap KING_ATTACKS(sq)>>

\* A variant of see_square in which a side that can capture has to.
RECURSIVE see_square_must_capture(_, _, _, _, _)
see_square_must_capture(pos, sq, occupier, allowed_pieces, white) ==
    LET cheapest == get_cheapest_captures(pos, sq, allowed_pieces, white)
        piece == cheapest[1]
        from_bb == cheapest[2]
        capture_value == value(occupier)
        promotion == piece = Pawn /\ ((white /\ rank(sq) = 7) \/ (~white /\ rank(sq) = 0))
        piece_after_move == IF promotion THEN Queen ELSE piece
        promotion_value == value(piece_after_move) - value(piece)
        RECURSIVE Loop(_, _)
        Loop(froms, val) ==
            IF froms = <<>> THEN val
            ELSE LET reply == see_square_must_capture(pos, sq, piece_after_move,
                                         Xor(allowed_pieces, to_bb(Head(froms))), ~white)
                     gain == capture_value + promotion_value - reply
                     next == IF gain > val THEN gain ELSE val
                 IN IF next >= capture_value + promotion_value THEN next
                    ELSE Loop(Tail(froms), next)
    IN IF from_bb = {} THEN 0 ELSE Loop(squares(from_bb), 0 - 32768)

\* Position::see_square: the most the side `white` can win by capturing on
\* sq, where a piece of type occupier stands.
RECURSIVE see_square(_, _, _, _, _)
see_square(pos, sq, occupier, allowed_pieces, white) ==
    LET cheapest == get_cheapest_captures(pos, sq, allowed_pieces, white)
        piece == cheapest[1]
        from_bb == cheapest[2]
        capture_value == value(occupier)
        promotion == piece = Pawn /\ ((white /\ rank(sq) = 7) \/ (~white /\ rank(sq) = 0))
        piece_after_move == IF promotion THEN Queen ELSE piece
        promotion_value == value(piece_after_move) - value(piece)
        RECURSIVE Loop(_, _)
        Loop(froms, val) ==
            IF froms = <<>> THEN val
            ELSE LET reply == see_square(pos, sq, piece_after_move,
                                         Xor(allowed_pieces, to_bb(Head(froms))), ~white)
                     gain == capture_value + promotion_value - reply
                     next == IF gain > val THEN gain ELSE val
                 IN IF next >= capture_value + promotion_value THEN next
                    ELSE Loop(Tail(froms), next)
    IN Loop(squares(from_bb), 0)

\* The calls of see_square that the call see_square(sq, occupier,
\* allowed_pieces, white) makes, itself included, each with its depth below
\* the first call (level) and its result; the loop is that of see_square,
\* with its break.
RECURSIVE see_square_calls(_, _, _, _, _, _)
see_square_calls(pos, sq, occupier, allowed_pieces, white, level) ==
    LET cheapest == get_cheapest_captures(pos, sq, allowed_pieces, white)
        piece == cheapest[1]
        from_bb == cheapest[2]
        capture_value == value(occupier)
        promotion == piece = Pawn /\ ((white /\ rank(sq) = 7) \/ (~white /\ rank(sq) = 0))
        piece_after_move == IF promotion THEN Queen ELSE piece
        promotion_value == value(piece_after_move) - value(piece)
        RECURSIVE Loop(_, _)
        Loop(froms, val) ==
            IF froms = <<>> THEN {}
            ELSE LET allowed == Xor(allowed_pieces, to_bb(Head(froms)))
                     reply == see_square(pos, sq, piece_after_move, allowed, ~white)
                     gain == capture_value + promotion_value - reply
                     next == IF gain > val THEN gain ELSE val
                 IN see_square_calls(pos, sq, piece_after_move, allowed, ~white, level + 1)
                    \cup (IF next >= capture_value + promotion_value THEN {}
                          ELSE Loop(Tail(froms), next))
    IN {[occupier |-> occupier, allowed_pieces |-> allowed_pieces, level |-> level,
         result |-> see_square(pos, sq, occupier, allowed_pieces, white)]}
       \cup Loop(squares(from_bb), 0)

\* A variant of see in which the mover's own side replies on the square.
see_reply_by_mover(pos, mov) ==
    LET allowed_pieces == Xor(pos.all_pieces, to_bb(mov.from) \ to_bb(mov.to))
        piece_value == IF mov.captured = None THEN 0 ELSE value(mov.captured)
        piece_after_move == IF mov.promoted = None THEN mov.piece ELSE mov.promoted
        promotion_value == value(piece_after_move) - value(mov.piece)
    IN piece_value + promotion_value
       - see_square(pos, mov.to, piece_after_move, allowed_pieces, pos.white_to_move)

\* Position::see: static exchange evaluation of mov
see(pos, mov) ==
    LET allowed_pieces == Xor(pos.all_pieces, to_bb(mov.from) \ to_bb(mov.to))
        piece_value == IF mov.captured = None THEN 0 ELSE value(mov.captured)
        piece_after_move == IF mov.promoted = None THEN mov.piece ELSE mov.promoted
        promotion_value == value(piece_after_move) - value(mov.piece)
    IN piece_value + promotion_value
       - see_square(pos, mov.to, piece_after_move, allowed_pieces, ~pos.white_to_move)

\* A variant of king_not_attacked without the scan along ranks and files.
king_not_attacked_no_rook_scan(pos, king, all_pieces, them1) ==
    LET wtm == pos.white_to_move
        their_pawns == pawns(pos) \cap them1
    IN /\ ~at_least_one(KNIGHT_ATTACKS(king) \cap them1 \cap knights(pos))
       /\ ~at_least_one(KING_ATTACKS(king) \cap them1 \cap kings(pos))
       /\ ~at_least_one(get_bishop_attacks_from(king, all_pieces) \cap them1
                        \cap (queens(pos) \cup bishops(pos)))
       /\ ~Has(backward(left(their_pawns, 1) \cup right(their_pawns, 1), wtm, 1), king)

\* Position::move_is_legal, its last statements: no enemy piece left in
\* `them` attacks `king` over the occupancy `all_pieces`.
king_not_attacked(pos, king, all_pieces, them1) ==
    LET wtm == pos.white_to_move
        their_pawns == pawns(pos) \cap them1
    IN /\ ~at_least_one(KNIGHT_ATTACKS(king) \cap them1 \cap knights(pos))
       /\ ~at_least_one(KING_ATTACKS(king) \cap them1 \cap kings(pos))
       /\ ~at_least_one(get_bishop_attacks_from(king, all_pieces) \cap them1
                        \cap (queens(pos) \cup bishops(pos)))
       /\ ~at_least_one(get_rook_attacks_from(king, all_pieces) \cap them1
                        \cap (queens(pos) \cup rooks(pos)))
       /\ ~Has(backward(left(their_pawns, 1) \cup right(their_pawns, 1), wtm, 1), king)

\* Position::move_is_legal
move_is_legal(pos, mov) ==
    LET wtm == pos.white_to_move
        qside == mov.piece = King /\ Has(left(to_bb(mov.from), 2), mov.to)
        kside == mov.piece = King /\ ~qside /\ Has(right(to_bb(mov.from), 2), mov.to)
        king == IF mov.piece = King THEN mov.to ELSE king_sq(pos, wtm)
        them0 == them(pos, wtm) \cap pos.all_pieces
        T(b, s) == Toggle(b, s)
        all_pieces ==
            IF qside THEN T(T(T(T(pos.all_pieces, mov.from), mov.to),
                              sq_left(mov.to, 2)), sq_right(mov.to, 1))
            ELSE IF kside THEN T(T(T(T(pos.all_pieces, mov.from), mov.to),
                                   sq_right(mov.to, 1)), sq_left(mov.to, 1))
            ELSE IF mov.piece = King
                 THEN IF mov.captured = None THEN T(T(pos.all_pieces, mov.from), mov.to)
                      ELSE T(pos.all_pieces, mov.from)
            ELSE IF mov.en_passant
                 THEN T(T(T(pos.all_pieces, mov.from), mov.to), sq_backward(mov.to, wtm, 1))
            ELSE IF mov.captured /= None THEN T(pos.all_pieces, mov.from)
            ELSE T(T(pos.all_pieces, mov.from), mov.to)
        them1 ==
            IF qside \/ kside THEN them0
            ELSE IF mov.piece = King
                 THEN IF mov.captured = None THEN them0 ELSE T(them0, mov.to)
            ELSE IF mov.en_passant THEN T(them0, sq_backward(mov.to, wtm, 1))
            ELSE IF mov.captured /= None THEN T(them0, mov.to)
            ELSE them0
    IN IF qside /\ (is_attacked(pos, mov.from) \/ is_attacked(pos, sq_left(mov.from, 1)))
       THEN FALSE
       ELSE IF kside /\ (is_attacked(pos, mov.from) \/ is_attacked(pos, sq_right(mov.from, 1)))
       THEN FALSE
       ELSE king_not_attacked(pos, king, all_pieces, them1)

(***************************************************************************)
(* movegen.rs: MoveGenerator                                               *)
(***************************************************************************)
\* Concatenation of f(x) for x along the sequence xs: a `for` loop that
\* pushes onto a Vec.
RECURSIVE FlatMap(_, _)
FlatMap(f(_), xs) == IF xs = <<>> THEN <<>> ELSE f(Head(xs)) \o FlatMap(f, Tail(xs))

PromotionPieces == <<Queen, Knight, Rook, Bishop>>

\* The moves pushed for a pawn arriving on `to` from `from`: four promotions
\* on the last rank, one move otherwise.
PawnArrivals(from, to, captured, promoting) ==
    IF rank(to) = promoting
    THEN [i \in 1..4 |-> Mv(from, to, Pawn, captured, PromotionPieces[i], FALSE)]
    ELSE <<Mv(from, to, Pawn, captured, None, FALSE)>>

\* MoveGenerator::pawn
gen_pawn(pos, targets) ==
    LET wtm == pos.white_to_move
        u == us(pos, wtm)
        th == them(pos, wtm)
        promoting == IF wtm THEN 7 ELSE 0
        rank3 == IF wtm THEN RANK_3 ELSE RANK_6
        pw == pawns(pos) \cap u
        single_step_targets == (forward(pw, wtm, 1) \ pos.all_pieces) \cap targets
        double_step_targets ==
            (forward((forward(pw, wtm, 1) \ pos.all_pieces) \cap rank3, wtm, 1)
             \ pos.all_pieces) \cap targets
        captures_left == left(forward(pw, wtm, 1), 1) \cap th \cap targets
        captures_right == right(forward(pw, wtm, 1), 1) \cap th \cap targets
        Single(to) == PawnArrivals(sq_backward(to, wtm, 1), to, None, promoting)
        Double(to) == <<Mv(sq_backward(to, wtm, 2), to, Pawn, None, None, FALSE)>>
        epf == pos.details.en_passant
        ep_square == IF wtm THEN file_rank(epf, 5) ELSE file_rank(epf, 2)
        capturers == u \cap pawns(pos) \cap EN_PASSANT_FILES(epf)
                     \cap (IF wtm THEN RANK_5 ELSE RANK_4)
        Ep(from) == <<Mv(from, file_rank(epf, rank(sq_forward(from, wtm, 1))),
                         Pawn, Pawn, None, TRUE)>>
        CapL(to) == PawnArrivals(sq_right(sq_backward(to, wtm, 1), 1), to,
                                 find_piece(pos, to), promoting)
        CapR(to) == PawnArrivals(sq_left(sq_backward(to, wtm, 1), 1), to,
                                 find_piece(pos, to), promoting)
    IN FlatMap(Single, squares(single_step_targets))
       \o FlatMap(Double, squares(double_step_targets))
       \o (IF epf /= NO_EP /\ Has(targets, ep_square)
           THEN FlatMap(Ep, squares(capturers)) ELSE <<>>)
       \o FlatMap(CapL, squares(captures_left))
       \o FlatMap(CapR, squares(captures_right))

\* The shape shared by knight, bishop, rook and queen: for every own piece of
\* the type, in square order, one move per attacked target square.
gen_piece(pos, piece, attacks(_), targets) ==
    LET u == us(pos, pos.white_to_move)
        From(from) ==
            LET To(to) == <<Mv(from, to, piece, find_piece(pos, to), None, FALSE)>>
            IN FlatMap(To, squares(targets \cap attacks(from)))
    IN FlatMap(From, squares(pos.bb[piece] \cap u))

\* A variant of gen_knight that misses the jumps to the a-file.
gen_knight_no_a_file(pos, targets) ==
    LET A(from) == KNIGHT_ATTACKS(from) \ FILES[0] IN gen_piece(pos, Knight, A, targets)

\* MoveGenerator::knight
gen_knight(pos, targets) ==
    LET A(from) == KNIGHT_ATTACKS(from) IN gen_piece(pos, Knight, A, targets)

\* MoveGenerator::bishop
gen_bishop(pos, targets) ==
    LET A(from) == get_bishop_attacks_from(from, pos.all_pieces)
    IN gen_piece(pos, Bishop, A, targets)

\* MoveGenerator::rook
gen_rook(pos, targets) ==
    LET A(from) == get_rook_attacks_from(from, pos.all_pieces)
    IN gen_piece(pos, Rook, A, targets)

\* MoveGenerator::queen
gen_queen(pos, targets) ==
    LET A(from) == get_bishop_attacks_from(from, pos.all_pieces)
                   \cup get_rook_attacks_from(from, pos.all_pieces)
    IN gen_piece(pos, Queen, A, targets)

\* The squares that must be empty for castling: 0x60 and 0x0E on the back rank.
KsideBetween(white) == IF white THEN {5, 6} ELSE {61, 62}

QsideBetween(white) == IF white THEN {1, 2, 3} ELSE {57, 58, 59}

\* A variant of gen_king that emits a castling whatever the targets are.
gen_king_castling_ignores_targets(pos, targets) ==
    LET wtm == pos.white_to_move
        u == us(pos, wtm)
        castle_kside ==
            /\ HasBit(pos.details.castling,
                      IF wtm THEN CASTLE_WHITE_KSIDE ELSE CASTLE_BLACK_KSIDE)
            /\ pos.all_pieces \cap KsideBetween(wtm) = {}
            /\ Has(rooks(pos) \cap u, IF wtm THEN SQUARE_H1 ELSE SQUARE_H8)
        castle_qside ==
            /\ HasBit(pos.details.castling,
                      IF wtm THEN CASTLE_WHITE_QSIDE ELSE CASTLE_BLACK_QSIDE)
            /\ pos.all_pieces \cap QsideBetween(wtm) = {}
            /\ Has(rooks(pos) \cap u, IF wtm THEN SQUARE_A1 ELSE SQUARE_A8)
        from == king_sq(pos, wtm)
        To(to) == <<Mv(from, to, King, find_piece(pos, to), None, FALSE)>>
    IN FlatMap(To, squares(targets \cap KING_ATTACKS(from)))
       \o (IF castle_kside
           THEN <<Mv(from, sq_right(from, 2), King, None, None, FALSE)>> ELSE <<>>)
       \o (IF castle_qside
           THEN <<Mv(from, sq_left(from, 2), King, None, None, FALSE)>> ELSE <<>>)

\* MoveGenerator::king
gen_king(pos, targets) ==
    LET wtm == pos.white_to_move
        u == us(pos, wtm)
        castle_kside ==
            /\ HasBit(pos.details.castling,
                      IF wtm THEN CASTLE_WHITE_KSIDE ELSE CASTLE_BLACK_KSIDE)
            /\ pos.all_pieces \cap KsideBetween(wtm) = {}
            /\ Has(rooks(pos) \cap u, IF wtm THEN SQUARE_H1 ELSE SQUARE_H8)
        castle_qside ==
            /\ HasBit(pos.details.castling,
                      IF wtm THEN CASTLE_WHITE_QSIDE ELSE CASTLE_BLACK_QSIDE)
            /\ pos.all_pieces \cap QsideBetween(wtm) = {}
            /\ Has(rooks(pos) \cap u, IF wtm THEN SQUARE_A1 ELSE SQUARE_A8)
        from == king_sq(pos, wtm)
        To(to) == <<Mv(from, to, King, find_piece(pos, to), None, FALSE)>>
    IN FlatMap(To, squares(targets \cap KING_ATTACKS(from)))
       \o (IF castle_kside /\ Has(targets, sq_right(from, 2))
           THEN <<Mv(from, sq_right(from, 2), King, None, None, FALSE)>> ELSE <<>>)
       \o (IF castle_qside /\ Has(targets, sq_left(from, 2))
           THEN <<Mv(from, sq_left(from, 2), King, None, None, FALSE)>> ELSE <<>>)

\* MoveGenerator::all_moves
all_moves(pos) ==
    LET all == Not(us(pos, pos.white_to_move))
    IN gen_pawn(pos, all) \o gen_knight(pos, all) \o gen_bishop(pos, all)
       \o gen_rook(pos, all) \o gen_queen(pos, all) \o gen_king(pos, all)

\* details.checkers: the enemy pieces that attack the king of the side to
\* move.
checkers(pos) ==
    LET wtm == pos.white_to_move
        th == them(pos, wtm)
        king == king_sq(pos, wtm)
    IN (pawns(pos) \cap th
        \cap (left(forward(to_bb(king), wtm, 1), 1) \cup right(forward(to_bb(king), wtm, 1), 1)))
       \cup (knights(pos) \cap th \cap KNIGHT_ATTACKS(king))
       \cup ((bishops(pos) \cup queens(pos)) \cap th
             \cap get_bishop_attacks_from(king, pos.all_pieces))
       \cup ((rooks(pos) \cup queens(pos)) \cap th
             \cap get_rook_attacks_from(king, pos.all_pieces))

\* Move::mvv_lva_score
mvv_lva_score(mov) ==
    (IF mov.captured = None THEN 0 ELSE value(mov.captured)) * 128
    + (IF mov.promoted = Queen THEN value(Queen) ELSE 0)
    - value(mov.piece)

\* A variant of capture_candidates that leaves the promotion rank out of the
\* pawn targets.
capture_candidates_without_promotion_rank(pos) ==
    LET wtm == pos.white_to_move
        th == them(pos, wtm) \cap pos.all_pieces
        ep == IF pos.details.en_passant /= NO_EP
              THEN to_bb(file_rank(pos.details.en_passant, IF wtm THEN 5 ELSE 2))
              ELSE {}
        promotion_rank == IF wtm THEN RANK_8 ELSE RANK_1
        chk == checkers(pos)
    IN IF more_than_one(chk) THEN gen_king(pos, th)
       ELSE IF at_least_one(chk)
       THEN gen_pawn(pos, chk \cup ep) \o gen_knight(pos, chk)
            \o gen_bishop(pos, chk) \o gen_rook(pos, chk) \o gen_queen(pos, chk)
            \o gen_king(pos, th)
       ELSE gen_pawn(pos, th \cup ep) \o gen_knight(pos, th)
            \o gen_bishop(pos, th) \o gen_rook(pos, th) \o gen_queen(pos, th)
            \o gen_king(pos, th)

\* MoveGenerator::good_captures up to the split: the candidates in the order
\* they are generated.
capture_candidates(pos) ==
    LET wtm == pos.white_to_move
        th == them(pos, wtm) \cap pos.all_pieces
        ep == IF pos.details.en_passant /= NO_EP
              THEN to_bb(file_rank(pos.details.en_passant, IF wtm THEN 5 ELSE 2))
              ELSE {}
        promotion_rank == IF wtm THEN RANK_8 ELSE RANK_1
        chk == checkers(pos)
    IN IF more_than_one(chk) THEN gen_king(pos, th)
       ELSE IF at_least_one(chk)
       THEN gen_pawn(pos, chk \cup promotion_rank \cup ep) \o gen_knight(pos, chk)
            \o gen_bishop(pos, chk) \o gen_rook(pos, chk) \o gen_queen(pos, chk)
            \o gen_king(pos, th)
       ELSE gen_pawn(pos, th \cup promotion_rank \cup ep) \o gen_knight(pos, th)
            \o gen_bishop(pos, th) \o gen_rook(pos, th) \o gen_queen(pos, th)
            \o gen_king(pos, th)

\* A variant of good_captures whose loop steps on after a removal too.
good_captures_always_steps(pos, bad_moves, bad_scores) ==
    LET RECURSIVE Split(_, _, _, _, _)
        Split(moves, i, scores, bad_m, bad_s) ==
            IF i > Len(moves)
            THEN [moves |-> moves, scores |-> scores,
                  bad_moves |-> bad_m, bad_scores |-> bad_s]
            ELSE LET mov == moves[i]
                 IN IF see(pos, mov) >= 0
                    THEN Split(moves, i + 1, Append(scores, mvv_lva_score(mov)),
                               bad_m, bad_s)
                    ELSE Split([j \in 1..(Len(moves) - 1) |->
                                    IF j = i THEN moves[Len(moves)] ELSE moves[j]],
                               i + 1, scores,
                               Append(bad_m, mov), Append(bad_s, mvv_lva_score(mov)))
    IN Split(capture_candidates(pos), 1, <<>>, bad_moves, bad_scores)

\* MoveGenerator::good_captures: moves and scores are cleared, the candidates
\* are generated and the loop moves those with a negative exchange value to
\* the caller's bad lists; swap_remove(i) puts the last move in place of the
\* one removed.
good_captures(pos, bad_moves, bad_scores) ==
    LET RECURSIVE Split(_, _, _, _, _)
        Split(moves, i, scores, bad_m, bad_s) ==
            IF i > Len(moves)
            THEN [moves |-> moves, scores |-> scores,
                  bad_moves |-> bad_m, bad_scores |-> bad_s]
            ELSE LET mov == moves[i]
                 IN IF see(pos, mov) >= 0
                    THEN Split(moves, i + 1, Append(scores, mvv_lva_score(mov)),
                               bad_m, bad_s)
                    ELSE Split([j \in 1..(Len(moves) - 1) |->
                                    IF j = i THEN moves[Len(moves)] ELSE moves[j]],
                               i, scores,
                               Append(bad_m, mov), Append(bad_s, mvv_lva_score(mov)))
    IN Split(capture_candidates(pos), 1, <<>>, bad_moves, bad_scores)

\* MoveGenerator::quiet_moves when the king is not in double check: the
\* moves of every piece to empty squares, pawn moves to the last rank and
\* onto the en-passant square left out.
quiet_moves_of_all_pieces(pos) ==
    LET wtm == pos.white_to_move
        empty == Not(pos.all_pieces)
        promotion_rank == IF wtm THEN RANK_8 ELSE RANK_1
        ep == IF pos.details.en_passant /= NO_EP
              THEN to_bb(file_rank(pos.details.en_passant, IF wtm THEN 5 ELSE 2))
              ELSE {}
    IN gen_pawn(pos, (empty \ promotion_rank) \ ep) \o gen_knight(pos, empty)
       \o gen_bishop(pos, empty) \o gen_rook(pos, empty) \o gen_queen(pos, empty)
       \o gen_king(pos, empty)

\* A variant of quiet_moves without the case of double check.
quiet_moves_ignoring_check(pos) == quiet_moves_of_all_pieces(pos)

\* A variant of quiet_moves that emits only king moves in any check.
quiet_moves_king_only_in_check(pos) ==
    IF at_least_one(checkers(pos)) THEN gen_king(pos, Not(pos.all_pieces))
    ELSE quiet_moves_of_all_pieces(pos)

\* MoveGenerator::quiet_moves
quiet_moves(pos) ==
    IF more_than_one(checkers(pos)) THEN gen_king(pos, Not(pos.all_pieces))
    ELSE quiet_moves_of_all_pieces(pos)

Range(seq) == {seq[i] : i \in 1..Len(seq)}

(***************************************************************************)
(* position.rs: Position::from(fen) and STARTING_POSITION                  *)
(*                                                                         *)
(* A FEN line is the sequence of its space-separated fields, each field    *)
(* the sequence of its characters.                                         *)
(***************************************************************************)
PieceChars == <<"p", "n", "b", "r", "q", "k">>

WhitePieceChars == <<"P", "N", "B", "R", "Q", "K">>

DigitChars == <<"0", "1", "2", "3", "4", "5", "6", "7", "8", "9">>

FileChars == <<"a", "b", "c", "d", "e", "f", "g", "h">>

\* The 0-based position of character c in chars, or None.
IndexOf(c, chars) ==
    IF \E i \in 1..Len(chars) : chars[i] = c
    THEN (CHOOSE i \in 1..Len(chars) : chars[i] = c) - 1
    ELSE None

EmptyPosition ==
    [color |-> {},
     bb |-> [p \in Pieces |-> {}],
     pieces |-> (0 :> {}) @@ (1 :> {}),
     details |-> [en_passant |-> NO_EP,
                  castling |-> CASTLE_WHITE_KSIDE + CASTLE_WHITE_QSIDE
                               + CASTLE_BLACK_KSIDE + CASTLE_BLACK_QSIDE,
                  halfmove |-> 0],
     white_to_move |-> TRUE,
     fullmove |-> 1,
     all_pieces |-> {},
     king_sq |-> (0 :> SQUARE_E8) @@ (1 :> SQUARE_E1)]

\* The loop over the board field: st = [pos, file, rank].
RECURSIVE ParseBoard(_, _)
ParseBoard(chars, st) ==
    IF chars = <<>> THEN st.pos
    ELSE LET c == Head(chars)
             wp == IndexOf(c, WhitePieceChars)
             bp == IndexOf(c, PieceChars)
             dg == IndexOf(c, DigitChars)
             sq == file_rank(st.file, st.rank)
             Put(piece, white) ==
                 LET pc == [st.pos.pieces EXCEPT ![b2i(white)] = Toggle(@, sq)]
                 IN [st.pos EXCEPT !.bb[piece] = Toggle(@, sq),
                                   !.pieces = pc,
                                   !.color = pc[1]]
         IN IF wp /= None
            THEN ParseBoard(Tail(chars), [st EXCEPT !.pos = Put(wp, TRUE), !.file = @ + 1])
            ELSE IF bp /= None
            THEN ParseBoard(Tail(chars), [st EXCEPT !.pos = Put(bp, FALSE), !.file = @ + 1])
            ELSE IF c = "/"
            THEN ParseBoard(Tail(chars), [st EXCEPT !.file = 0, !.rank = @ - 1])
            ELSE ParseBoard(Tail(chars), [st EXCEPT !.file = @ + dg])

RECURSIVE ParseCastling_black_sides_swapped(_, _)
ParseCastling_black_sides_swapped(chars, mask) ==
    IF chars = <<>> \/ Head(chars) = "-" THEN mask
    ELSE LET c == Head(chars)
             bit == CASE c = "K" -> CASTLE_WHITE_KSIDE
                      [] c = "Q" -> CASTLE_WHITE_QSIDE
                      [] c = "k" -> CASTLE_BLACK_QSIDE
                      [] c = "q" -> CASTLE_BLACK_KSIDE
         IN ParseCastling_black_sides_swapped(Tail(chars),
                IF HasBit(mask, bit) THEN mask ELSE mask + bit)

\* The loop over the castling field.
RECURSIVE ParseCastling(_, _)
ParseCastling(chars, mask) ==
    IF chars = <<>> \/ Head(chars) = "-" THEN mask
    ELSE LET c == Head(chars)
             bit == CASE c = "K" -> CASTLE_WHITE_KSIDE
                      [] c = "Q" -> CASTLE_WHITE_QSIDE
                      [] c = "k" -> CASTLE_BLACK_KSIDE
                      [] c = "q" -> CASTLE_BLACK_QSIDE
         IN ParseCastling(Tail(chars), IF HasBit(mask, bit) THEN mask ELSE mask + bit)

\* str::parse of a decimal number.
RECURSIVE ParseNumber(_, _)
ParseNumber(chars, acc) ==
    IF chars = <<>> THEN acc
    ELSE ParseNumber(Tail(chars), 10 * acc + IndexOf(Head(chars), DigitChars))

\* A panic: its message and the character it names ("" for an unwrap of a
\* missing value).
Panic(message, character) == [panic |-> message, character |-> character]

\* No panic: the call returns.
NoPanic == Panic("", "")

\* Does result stand for a call ended by a panic
IsPanic(result) == "panic" \in DOMAIN result

\* The panic that ends Position::from(fen), NoPanic if it returns: the first
\* of the unwraps and panic! calls, in the order the function reaches them.
Position_from_panic(fen) ==
    LET BoardChars == {"P", "N", "B", "R", "Q", "K", "p", "n", "b", "r", "q", "k", "/",
                       "1", "2", "3", "4", "5", "6", "7", "8"}
        FirstNotIn(chars, allowed) ==
            IF \E i \in 1..Len(chars) : chars[i] \notin allowed
            THEN chars[CHOOSE i \in 1..Len(chars) :
                          /\ chars[i] \notin allowed
                          /\ \A j \in 1..(i - 1) : chars[j] \in allowed]
            ELSE ""
        \* the castling loop stops at the first '-'
        BeforeDash(chars) ==
            IF \E i \in 1..Len(chars) : chars[i] = "-"
            THEN SubSeq(chars, 1, (CHOOSE i \in 1..Len(chars) :
                                      /\ chars[i] = "-"
                                      /\ \A j \in 1..(i - 1) : chars[j] /= "-") - 1)
            ELSE chars
        Kings(white) ==
            {i \in 1..Len(fen[1]) : fen[1][i] = (IF white THEN "K" ELSE "k")}
    IN IF Len(fen) < 1 THEN Panic("unwrap on a None value", "")
       ELSE IF FirstNotIn(fen[1], BoardChars) /= ""
       THEN Panic("Unexpected character in fen position", FirstNotIn(fen[1], BoardChars))
       ELSE IF Len(fen) < 3 THEN Panic("unwrap on a None value", "")
       ELSE IF FirstNotIn(BeforeDash(fen[3]), {"K", "Q", "k", "q"}) /= ""
       THEN Panic("Unexpected character in fen castling",
                  FirstNotIn(BeforeDash(fen[3]), {"K", "Q", "k", "q"}))
       ELSE IF Len(fen) >= 4 /\ fen[4] /= <<"-">> /\ IndexOf(fen[4][1], FileChars) = None
       THEN Panic("Unexpected character in fen en passant", fen[4][1])
       ELSE IF Kings(FALSE) = {} \/ Kings(TRUE) = {}
       THEN Panic("unwrap on a None value", "")
       ELSE NoPanic

\* impl From<&str> for Position: the Position, or the panic that ends the
\* call
Position_from(fen) ==
    LET p1 == ParseBoard(fen[1], [pos |-> EmptyPosition, file |-> 0, rank |-> 7])
        all == p1.pieces[1] \cup p1.pieces[0]
        ep == IF Len(fen) >= 4 /\ fen[4] /= <<"-">>
              THEN IndexOf(fen[4][1], FileChars) ELSE NO_EP
        \* n.parse().ok(): a number only if the text is all digits and the
        \* value fits the type: u8 for halfmove, usize for fullmove (a text
        \* of up to 9 digits, which is all the inputs hold, always fits)
        Digits(chars) ==
            /\ chars /= <<>>
            /\ Len(chars) <= 9
            /\ \A i \in 1..Len(chars) : IndexOf(chars[i], DigitChars) /= None
        halfmove == IF Len(fen) >= 5 /\ Digits(fen[5]) /\ ParseNumber(fen[5], 0) <= 255
                    THEN ParseNumber(fen[5], 0) ELSE 0
        fullmove == IF Len(fen) >= 6 /\ Digits(fen[6])
                    THEN ParseNumber(fen[6], 0) ELSE 1
    IN IF Position_from_panic(fen) /= NoPanic THEN Position_from_panic(fen)
       ELSE
       [p1 EXCEPT
           !.all_pieces = all,
           !.white_to_move = ~(fen[2] = <<"b">>),
           !.details = [castling |-> ParseCastling(fen[3], 0),
                        en_passant |-> ep,
                        halfmove |-> halfmove],
           !.fullmove = fullmove,
           !.king_sq = (0 :> Head(squares(kings(p1) \cap p1.pieces[0])))
                       @@ (1 :> Head(squares(kings(p1) \cap p1.pieces[1])))]

\* movegen.rs: the conversions between a Move and its coordinate text
\* A variant of from_algebraic that takes any pawn move onto an empty square
\* for an en-passant capture.
from_algebraic_any_pawn_move_en_passant(pos, alg) ==
    LET letters == <<"a", "b", "c", "d", "e", "f", "g", "h">>
        numbers == <<"1", "2", "3", "4", "5", "6", "7", "8">>
        \* the index the loop leaves: that of the character, 0 if it is not
        \* among chars
        Find(c, chars) == IF IndexOf(c, chars) = None THEN 0 ELSE IndexOf(c, chars)
        from == file_rank(Find(alg[1], letters), Find(alg[2], numbers))
        to == file_rank(Find(alg[3], letters), Find(alg[4], numbers))
        piece == find_piece(pos, from)
        en_passant == piece = Pawn /\ ~Has(pos.all_pieces, to)
        captured == IF en_passant THEN Pawn ELSE find_piece(pos, to)
        promoted == IF Len(alg) < 5 THEN None
                    ELSE CASE alg[5] = "q" -> Queen
                           [] alg[5] = "n" -> Knight
                           [] alg[5] = "r" -> Rook
                           [] alg[5] = "b" -> Bishop
                           [] OTHER -> None
    IN IF Len(alg) < 4 THEN Panic("unwrap on a None value", "")
       ELSE IF piece = None THEN Panic("unwrap on a None value", "")
       ELSE Mv(from, to, piece, captured, promoted, en_passant)

\* Move::from_algebraic: the Move, or the panic that ends the call
from_algebraic(pos, alg) ==
    LET letters == <<"a", "b", "c", "d", "e", "f", "g", "h">>
        numbers == <<"1", "2", "3", "4", "5", "6", "7", "8">>
        \* the index the loop leaves: that of the character, 0 if it is not
        \* among chars
        Find(c, chars) == IF IndexOf(c, chars) = None THEN 0 ELSE IndexOf(c, chars)
        from == file_rank(Find(alg[1], letters), Find(alg[2], numbers))
        to == file_rank(Find(alg[3], letters), Find(alg[4], numbers))
        piece == find_piece(pos, from)
        en_passant == piece = Pawn /\ ~Has(pos.all_pieces, to) /\ file(from) /= file(to)
        captured == IF en_passant THEN Pawn ELSE find_piece(pos, to)
        promoted == IF Len(alg) < 5 THEN None
                    ELSE CASE alg[5] = "q" -> Queen
                           [] alg[5] = "n" -> Knight
                           [] alg[5] = "r" -> Rook
                           [] alg[5] = "b" -> Bishop
                           [] OTHER -> None
    IN IF Len(alg) < 4 THEN Panic("unwrap on a None value", "")
       ELSE IF piece = None THEN Panic("unwrap on a None value", "")
       ELSE Mv(from, to, piece, captured, promoted, en_passant)

\* Move::to_algebraic
to_algebraic(mov) ==
    LET letters == <<"a", "b", "c", "d", "e", "f", "g", "h">>
        numbers == <<"1", "2", "3", "4", "5", "6", "7", "8">>
        alg == <<letters[file(mov.from) + 1], numbers[rank(mov.from) + 1],
                 letters[file(mov.to) + 1], numbers[rank(mov.to) + 1]>>
    IN CASE mov.promoted = Queen -> Append(alg, "q")
         [] mov.promoted = Knight -> Append(alg, "n")
         [] mov.promoted = Rook -> Append(alg, "r")
         [] mov.promoted = Bishop -> Append(alg, "b")
         [] mov.promoted = None -> alg
         [] OTHER -> Panic("Invalid promotion piece", "")

\* STARTING_POSITION, with the STARTING_* bitboards it is built from
STARTING_POSITION ==
    LET STARTING_COLOR == RANK_1 \cup RANK_2
        STARTING_BLACK == RANK_7 \cup RANK_8
    IN [color |-> STARTING_COLOR,
        bb |-> (Pawn :> (RANK_2 \cup RANK_7)) @@ (Knight :> {1, 6, 57, 62})
               @@ (Bishop :> {2, 5, 58, 61}) @@ (Rook :> {0, 7, 56, 63})
               @@ (Queen :> {3, 59}) @@ (King :> {4, 60}),
        pieces |-> (0 :> STARTING_BLACK) @@ (1 :> STARTING_COLOR),
        details |-> [en_passant |-> NO_EP,
                     castling |-> CASTLE_WHITE_KSIDE + CASTLE_WHITE_QSIDE
                                  + CASTLE_BLACK_KSIDE + CASTLE_BLACK_QSIDE,
                     halfmove |-> 0],
        white_to_move |-> TRUE,
        fullmove |-> 1,
        all_pieces |-> STARTING_COLOR \cup STARTING_BLACK,
        king_sq |-> (0 :> SQUARE_E8) @@ (1 :> SQUARE_E1)]

(***************************************************************************)
(* hash.rs: Hasher                                                         *)
(*                                                                         *)
(* The key tables color, pawns, knights, bishops, rooks, queens, kings (64 *)
(* keys each), white_to_move, en_passant (8) and castle (16) are numbered  *)
(* consecutively; `hash ^= key` toggles the key's number in the set.       *)
(***************************************************************************)
ColorKey(sq) == sq

\* pawns[sq], knights[sq], ..., kings[sq]
PieceKey(piece, sq) == 64 * (piece + 1) + sq

WhiteToMoveKey == 448

EnPassantKey(f) == 449 + f

CastleKey(mask) == 457 + mask

\* hash ^= k for every key k of the sequence, in order
RECURSIVE XorKeys(_, _)
XorKeys(hash, keys) ==
    IF keys = <<>> THEN hash
    ELSE XorKeys(IF Head(keys) \in hash THEN hash \ {Head(keys)} ELSE hash \cup {Head(keys)},
                 Tail(keys))

\* A variant of CapturedKeys that never toggles the colour key of an
\* ordinary capture: unmake_move then loses the key make_move toggled through
\* `pos.color & mov.to`.
CapturedKeys_no_color(mov, white_to_move, withColor) ==
    IF mov.captured = None \/ mov.captured = King THEN <<>>
    ELSE IF mov.captured = Pawn /\ mov.en_passant
    THEN <<PieceKey(Pawn, sq_backward(mov.to, white_to_move, 1))>>
         \o (IF ~white_to_move
             THEN <<ColorKey(sq_backward(mov.to, white_to_move, 1))>> ELSE <<>>)
    ELSE <<PieceKey(mov.captured, mov.to)>>

\* The keys of the `match mov.captured` of make_move and unmake_move: a
\* captured king matches no arm.
CapturedKeys(mov, white_to_move, withColor) ==
    IF mov.captured = None \/ mov.captured = King THEN <<>>
    ELSE IF mov.captured = Pawn /\ mov.en_passant
    THEN <<PieceKey(Pawn, sq_backward(mov.to, white_to_move, 1))>>
         \o (IF ~white_to_move
             THEN <<ColorKey(sq_backward(mov.to, white_to_move, 1))>> ELSE <<>>)
    ELSE <<PieceKey(mov.captured, mov.to)>>
         \o (IF withColor /\ ~white_to_move THEN <<ColorKey(mov.to)>> ELSE <<>>)

\* The keys of the castling rook in the King arm of make_move and unmake_move.
CastleRookKeys(mov, white) ==
    IF mov.to = mov.from + 2
    THEN <<PieceKey(Rook, sq_right(mov.to, 1)), PieceKey(Rook, sq_left(mov.to, 1))>>
         \o (IF white THEN <<ColorKey(sq_right(mov.to, 1)), ColorKey(sq_left(mov.to, 1))>>
             ELSE <<>>)
    ELSE IF mov.from = mov.to + 2
    THEN <<PieceKey(Rook, sq_left(mov.to, 2)), PieceKey(Rook, sq_right(mov.to, 1))>>
         \o (IF white THEN <<ColorKey(sq_left(mov.to, 2)), ColorKey(sq_right(mov.to, 1))>>
             ELSE <<>>)
    ELSE <<>>

\* The keys of the `match mov.piece` of make_move and unmake_move.
MoverKeys(mov, white) ==
    IF mov.piece = Pawn
    THEN <<PieceKey(Pawn, mov.from),
           PieceKey(IF mov.promoted /= None THEN mov.promoted ELSE Pawn, mov.to)>>
    ELSE IF mov.piece = King
    THEN CastleRookKeys(mov, white) \o <<PieceKey(King, mov.from), PieceKey(King, mov.to)>>
    ELSE <<PieceKey(mov.piece, mov.from), PieceKey(mov.piece, mov.to)>>

\* A variant of HashEpCreated that takes every double push for a new
\* en-passant file, whether or not an enemy pawn stands next to it.
HashEpCreated_any_double_push(pos, mov) ==
    LET wtm == pos.white_to_move
        rank2 == IF wtm THEN RANK_2 ELSE RANK_7
        rank4 == IF wtm THEN RANK_4 ELSE RANK_5
    IN /\ Has(pawns(pos) \cap rank2, mov.from)
       /\ Has(rank4, mov.to)

\* The test of Hasher::make_move for a newly created en-passant file.
HashEpCreated(pos, mov) ==
    LET wtm == pos.white_to_move
        rank2 == IF wtm THEN RANK_2 ELSE RANK_7
        rank4 == IF wtm THEN RANK_4 ELSE RANK_5
        th == IF wtm THEN pos.pieces[0] ELSE pos.pieces[1]
    IN /\ Has(pawns(pos) \cap rank2, mov.from)
       /\ Has(rank4, mov.to)
       /\ (Has(right(pawns(pos) \cap th, 1), mov.to) \/ Has(left(pawns(pos) \cap th, 1), mov.to))

\* a & b on 4-bit castling masks
MaskAnd(a, b) ==
    LET Bit(k) == IF HasBit(a, k) /\ HasBit(b, k) THEN k ELSE 0
    IN Bit(1) + Bit(2) + Bit(4) + Bit(8)

\* The local `castling` of Hasher::make_move after its updates.
HashCastlingAfter(castling, wtm, mov) ==
    LET c0 == IF mov.piece = King
              THEN IF wtm THEN MaskAnd(castling, CASTLE_BLACK_KSIDE + CASTLE_BLACK_QSIDE)
                   ELSE MaskAnd(castling, CASTLE_WHITE_KSIDE + CASTLE_WHITE_QSIDE)
              ELSE castling
        c1 == IF mov.from = 0 \/ mov.to = 0 THEN ClearBit(c0, CASTLE_WHITE_QSIDE) ELSE c0
        c2 == IF mov.from = 7 \/ mov.to = 7 THEN ClearBit(c1, CASTLE_WHITE_KSIDE) ELSE c1
        c3 == IF mov.from = 56 \/ mov.to = 56 THEN ClearBit(c2, CASTLE_BLACK_QSIDE) ELSE c2
    IN IF mov.from = 63 \/ mov.to = 63 THEN ClearBit(c3, CASTLE_BLACK_KSIDE) ELSE c3

\* Hasher::make_move, called with the position before the move
hash_make_move(hash, pos, mov) ==
    LET wtm == pos.white_to_move
        castling == HashCastlingAfter(pos.details.castling, wtm, mov)
    IN XorKeys(hash,
           (IF pos.details.en_passant /= NO_EP
            THEN <<EnPassantKey(pos.details.en_passant)>> ELSE <<>>)
           \o (IF HashEpCreated(pos, mov) THEN <<EnPassantKey(file(mov.from))>> ELSE <<>>)
           \o <<CastleKey(pos.details.castling)>>
           \o CapturedKeys(mov, wtm, FALSE)
           \o MoverKeys(mov, wtm)
           \o (IF wtm THEN <<ColorKey(mov.to), ColorKey(mov.from)>>
               ELSE IF Has(pos.color, mov.to) THEN <<ColorKey(mov.to)>> ELSE <<>>)
           \o <<CastleKey(castling), WhiteToMoveKey>>)

\* Hasher::unmake_move, called with the position after the move
hash_unmake_move(hash, pos, mov, irreversible_details) ==
    LET unmaking_white_move == ~pos.white_to_move
    IN XorKeys(hash,
           <<WhiteToMoveKey>>
           \o (IF pos.details.en_passant /= NO_EP
               THEN <<EnPassantKey(pos.details.en_passant)>> ELSE <<>>)
           \o (IF irreversible_details.en_passant /= NO_EP
               THEN <<EnPassantKey(irreversible_details.en_passant)>> ELSE <<>>)
           \o <<CastleKey(pos.details.castling), CastleKey(irreversible_details.castling)>>
           \o (IF unmaking_white_move THEN <<ColorKey(mov.from), ColorKey(mov.to)>>
               ELSE IF Has(pos.color, mov.from) THEN <<ColorKey(mov.from)>> ELSE <<>>)
           \o MoverKeys(mov, unmaking_white_move)
           \o CapturedKeys(mov, unmaking_white_move, TRUE))

\* Hasher::make_nullmove
hash_make_nullmove(hash, pos) ==
    XorKeys(hash,
        <<WhiteToMoveKey>>
        \o (IF pos.details.en_passant /= NO_EP
            THEN <<EnPassantKey(pos.details.en_passant)>> ELSE <<>>))

\* A variant of hash_unmake_nullmove that does not toggle the key of the
\* saved en-passant file back in.
hash_unmake_nullmove_no_saved_ep(hash, pos, irreversible_details) ==
    XorKeys(hash,
        <<WhiteToMoveKey>>
        \o (IF pos.details.en_passant /= NO_EP
            THEN <<EnPassantKey(pos.details.en_passant)>> ELSE <<>>)
        \o <<CastleKey(pos.details.castling), CastleKey(irreversible_details.castling)>>)

\* Hasher::unmake_nullmove
hash_unmake_nullmove(hash, pos, irreversible_details) ==
    XorKeys(hash,
        <<WhiteToMoveKey>>
        \o (IF pos.details.en_passant /= NO_EP
            THEN <<EnPassantKey(pos.details.en_passant)>> ELSE <<>>)
        \o (IF irreversible_details.en_passant /= NO_EP
            THEN <<EnPassantKey(irreversible_details.en_passant)>> ELSE <<>>)
        \o <<CastleKey(pos.details.castling), CastleKey(irreversible_details.castling)>>)

\* Integer division as Rust does it: the quotient is rounded towards zero.
Quot(a, b) == IF a >= 0 THEN a \div b ELSE 0 - ((0 - a) \div b)

(***************************************************************************)
(* eval.rs: the incrementally maintained part of Eval                      *)
(***************************************************************************)
PAWN_PST ==
    << 24,  28,  35,  50,  50,  35,  28,  24,
       16,  23,  27,  34,  34,  27,  23,  16,
        5,   7,  11,  20,  20,  11,   7,   5,
      -12,  -9,  -2,  11,  11,  -2,  -9, -12,
      -21, -20, -12,   2,   2, -12, -20, -21,
      -17, -14, -14,  -6,  -6, -14, -14, -17,
      -21, -20, -18, -15, -15, -18, -20, -21,
        0,   0,   0,   0,   0,   0,   0,   0 >>

KNIGHT_PST ==
    <<-10, -10, -10, -10, -10, -10, -10, -10,
      -10,   0,  10,  15,  15,  10,   0, -10,
      -10,   5,  15,  20,  20,  15,   5, -10,
      -10,   5,  15,  20,  20,  15,   5, -10,
      -10,   0,  15,  20,  20,  15,   0, -10,
      -10,   0,  10,  10,  10,  10,   0, -10,
      -10,   0,   0,   5,   5,   0,   0, -10,
      -10, -10, -10, -10, -10, -10, -10, -10 >>

BISHOP_PST ==
    <<-10, -10, -10, -10, -10, -10, -10, -10,
      -10,   0,   5,  10,  10,   5,   0, -10,
      -10,   5,  10,  20,  20,  10,   5, -10,
      -10,   5,  10,  20,  20,  10,   5, -10,
      -10,   0,  10,  15,  15,  10,   0, -10,
      -10,   5,  10,  10,  10,  10,   5, -10,
      -10,  10,   0,   5,   5,   0,  10, -10,
      -10, -10, -10, -10, -10, -10, -10, -10 >>

ROOK_PST ==
    << 20, 20, 20, 25, 25, 20, 20,  20,
       20, 20, 20, 25, 25, 20, 20,  20,
        0,  0,  0,  5,  5,  0,  0,   0,
        0,  0,  0,  5,  5,  0,  0,   0,
        0,  0,  0,  5,  5,  0,  0,   0,
       -5,  0,  0, 10, 10,  0,  0,  -5,
       -5, -5,  0, 15, 15,  0, -5,  -5,
      -10, -5, 10, 25, 25, 10, -5, -10 >>

QUEEN_PST == [i \in 1..64 |-> 0]

KING_PST == [i \in 1..64 |-> 0]

\* PST[piece.index()]
PST(piece) ==
    CASE piece = Pawn -> PAWN_PST
      [] piece = Knight -> KNIGHT_PST
      [] piece = Bishop -> BISHOP_PST
      [] piece = Rook -> ROOK_PST
      [] piece = Queen -> QUEEN_PST
      [] piece = King -> KING_PST

\* sq ^ 0b11_1000: the rank is mirrored, the file kept
FlipRank(sq) == file_rank(file(sq), 7 - rank(sq))

\* pst with the mirroring on the other side: Black's squares are mirrored.
pst_black_mirrored(table, from_white_perspective, sq) ==
    IF from_white_perspective THEN table[sq + 1] ELSE table[FlipRank(sq) + 1]

\* pst(table, from_white_perspective, sq); the arrays are 0-based in the source
pst(table, from_white_perspective, sq) ==
    IF from_white_perspective THEN table[FlipRank(sq) + 1] ELSE table[sq + 1]

\* The name of the material counter of a side's piece type.
MaterialField(white, piece) ==
    CASE piece = Pawn -> IF white THEN "white_pawns" ELSE "black_pawns"
      [] piece = Knight -> IF white THEN "white_knights" ELSE "black_knights"
      [] piece = Bishop -> IF white THEN "white_bishops" ELSE "black_bishops"
      [] piece = Rook -> IF white THEN "white_rooks" ELSE "black_rooks"
      [] piece = Queen -> IF white THEN "white_queens" ELSE "black_queens"

\* white_pawns_per_file / black_pawns_per_file
PerFileField(white) == IF white THEN "white_pawns_per_file" ELSE "black_pawns_per_file"

\* Material::from
Material_from(pos) ==
    [white_pawns |-> popcount(pos.pieces[1] \cap pawns(pos)),
     white_knights |-> popcount(pos.pieces[1] \cap knights(pos)),
     white_bishops |-> popcount(pos.pieces[1] \cap bishops(pos)),
     white_rooks |-> popcount(pos.pieces[1] \cap rooks(pos)),
     white_queens |-> popcount(pos.pieces[1] \cap queens(pos)),
     black_pawns |-> popcount(pos.pieces[0] \cap pawns(pos)),
     black_knights |-> popcount(pos.pieces[0] \cap knights(pos)),
     black_bishops |-> popcount(pos.pieces[0] \cap bishops(pos)),
     black_rooks |-> popcount(pos.pieces[0] \cap rooks(pos)),
     black_queens |-> popcount(pos.pieces[0] \cap queens(pos))]

\* A variant of is_draw that does not look at Black's pawns, rooks and queens.
is_draw_ignoring_black_heavy(m) ==
    IF m.white_pawns > 0 \/ m.white_rooks > 0 \/ m.white_queens > 0 THEN FALSE
    ELSE IF m.white_bishops = 0 /\ m.white_knights = 0
    THEN IF m.black_bishops = 0 /\ m.black_knights < 3 THEN TRUE
         ELSE IF m.black_bishops > 0 /\ m.black_bishops + m.black_knights > 1 THEN FALSE
         ELSE TRUE
    ELSE IF m.black_bishops = 0 /\ m.black_knights = 0
    THEN IF m.white_bishops = 0 /\ m.white_knights < 3 THEN TRUE
         ELSE IF m.white_bishops > 0 /\ m.white_bishops + m.white_knights > 1 THEN FALSE
         ELSE TRUE
    ELSE FALSE

\* Material::is_draw
is_draw(m) ==
    IF m.white_pawns > 0 \/ m.white_rooks > 0 \/ m.white_queens > 0 THEN FALSE
    ELSE IF m.black_pawns > 0 \/ m.black_rooks > 0 \/ m.black_queens > 0 THEN FALSE
    ELSE IF m.white_bishops = 0 /\ m.white_knights = 0
    THEN IF m.black_bishops = 0 /\ m.black_knights < 3 THEN TRUE
         ELSE IF m.black_bishops > 0 /\ m.black_bishops + m.black_knights > 1 THEN FALSE
         ELSE TRUE
    ELSE IF m.black_bishops = 0 /\ m.black_knights = 0
    THEN IF m.white_bishops = 0 /\ m.white_knights < 3 THEN TRUE
         ELSE IF m.white_bishops > 0 /\ m.white_bishops + m.white_knights > 1 THEN FALSE
         ELSE TRUE
    ELSE FALSE

\* .squares().map(|sq| pst(table, white, sq)).sum()
RECURSIVE PstSum(_, _, _)
PstSum(table, white, sqs) ==
    IF sqs = <<>> THEN 0
    ELSE pst(table, white, Head(sqs)) + PstSum(table, white, Tail(sqs))

\* init_pst_score: [black, white]
init_pst_score(pos) ==
    LET Side(white) ==
            LET own == pos.pieces[b2i(white)]
            IN PstSum(PST(Pawn), white, squares(own \cap pawns(pos)))
               + PstSum(PST(Knight), white, squares(own \cap knights(pos)))
               + PstSum(PST(Bishop), white, squares(own \cap bishops(pos)))
               + PstSum(PST(Rook), white, squares(own \cap rooks(pos)))
               + PstSum(PST(Queen), white, squares(own \cap queens(pos)))
               + PstSum(PST(King), white, squares(own \cap kings(pos)))
    IN (0 :> Side(FALSE)) @@ (1 :> Side(TRUE))

\* Positional::from
Positional_from(pos) ==
    [white_pawns_per_file |->
         [f \in 0..7 |-> popcount(pawns(pos) \cap pos.pieces[1] \cap FILES[f])],
     black_pawns_per_file |->
         [f \in 0..7 |-> popcount(pawns(pos) \cap pos.pieces[0] \cap FILES[f])]]

\* Eval::from; the pawn table is left out: make_move and unmake_move never
\* read or write it.
Eval_from(pos) ==
    [material |-> Material_from(pos),
     pst |-> init_pst_score(pos),
     positional |-> Positional_from(pos)]

PAWN_TABLE_NUM_ENTRIES == 2048

\* PawnHashEntry::default()
PawnHashEntry_default == [pawns |-> {}, color |-> {}, mg |-> 0, eg |-> 0]

\* self.pawn_table[i]: the table starts with PAWN_TABLE_NUM_ENTRIES default
\* entries, and pawn_table holds only the entries written since.
PawnTableEntry(table, i) ==
    IF i \in DOMAIN table THEN table[i] ELSE PawnHashEntry_default

\* PAWN_CORRIDOR[side][sq]: the squares in front of a pawn of that side on
\* sq, on its own file and the two files next to it.
PAWN_CORRIDOR(white, sq) ==
    {s \in Squares :
        /\ file(s) \in {file(sq) - 1, file(sq), file(sq) + 1}
        /\ IF white THEN rank(s) > rank(sq) ELSE rank(s) < rank(sq)}

\* Eval::pawns_for_side: <<mg, eg>>
pawns_for_side(pos, white) ==
    LET u == pos.pieces[b2i(white)]
        th == Not(u)
        PASSER_ON_RANK_BONUS_EG == <<0, 160, 80, 40, 20, 10, 10, 0>>
        PASSER_ON_RANK_BONUS_MG == <<0, 60, 50, 40, 30, 20, 10, 0>>
        ISOLATED_PAWN_PENALTY_EG == 10
        ISOLATED_PAWN_PENALTY_MG == 10
        \* what one pawn adds to <<mg, eg>>
        Pawn1(pawn) ==
            LET corridor_bb == PAWN_CORRIDOR(white, pawn)
                file_forward_bb == corridor_bb \cap FILES[file(pawn)]
                passed == (corridor_bb \cap th \cap pawns(pos)) = {}
                doubled == (file_forward_bb \cap u \cap pawns(pos)) /= {}
                relative_rank == IF white THEN 7 - rank(pawn) ELSE rank(pawn)
                isolated == ((left(FILES[file(pawn)], 1) \cup right(FILES[file(pawn)], 1))
                             \cap pawns(pos) \cap u) = {}
            IN <<(IF passed /\ ~doubled THEN PASSER_ON_RANK_BONUS_MG[relative_rank + 1] ELSE 0)
                 - (IF isolated THEN ISOLATED_PAWN_PENALTY_MG ELSE 0),
                 (IF passed /\ ~doubled THEN PASSER_ON_RANK_BONUS_EG[relative_rank + 1] ELSE 0)
                 - (IF isolated /\ ~passed THEN ISOLATED_PAWN_PENALTY_EG ELSE 0)>>
        RECURSIVE Sum(_)
        Sum(sqs) ==
            IF sqs = <<>> THEN <<0, 0>>
            ELSE LET rest == Sum(Tail(sqs))
                     one == Pawn1(Head(sqs))
                 IN <<one[1] + rest[1], one[2] + rest[2]>>
    IN Sum(squares(pawns(pos) \cap u))

\* A variant of Eval_pawns that compares only the pawn bitboard.
Eval_pawns_comparing_pawns_only(table, pos, pawn_hash) ==
    LET pw == pos.bb[Pawn]
        index == pawn_hash % PAWN_TABLE_NUM_ENTRIES
        entry == PawnTableEntry(table, index)
        w == pawns_for_side(pos, TRUE)
        b == pawns_for_side(pos, FALSE)
    IN IF entry.pawns = pw
       THEN [table |-> table, result |-> <<entry.mg, entry.eg>>, hit |-> TRUE]
       ELSE [table |-> (index :> [pawns |-> pw, color |-> pos.color \cap pw,
                                  mg |-> w[1] - b[1], eg |-> w[2] - b[2]]) @@ table,
             result |-> <<w[1] - b[1], w[2] - b[2]>>, hit |-> FALSE]

\* Eval::pawns: the table after the call, the pair returned, and whether it
\* was read from the table.
Eval_pawns(table, pos, pawn_hash) ==
    LET pw == pos.bb[Pawn]
        index == pawn_hash % PAWN_TABLE_NUM_ENTRIES
        entry == PawnTableEntry(table, index)
        w == pawns_for_side(pos, TRUE)
        b == pawns_for_side(pos, FALSE)
    IN IF entry.pawns = pw /\ entry.color = pos.color \cap pw
       THEN [table |-> table, result |-> <<entry.mg, entry.eg>>, hit |-> TRUE]
       ELSE [table |-> (index :> [pawns |-> pw, color |-> pos.color \cap pw,
                                  mg |-> w[1] - b[1], eg |-> w[2] - b[2]]) @@ table,
             result |-> <<w[1] - b[1], w[2] - b[2]>>, hit |-> FALSE]

\* Material::score
Material_score(m) ==
    LET white0 == PAWN_SCORE * m.white_pawns + KNIGHT_SCORE * m.white_knights
                  + BISHOP_SCORE * m.white_bishops + ROOK_SCORE * m.white_rooks
                  + QUEEN_SCORE * m.white_queens
        black0 == PAWN_SCORE * m.black_pawns + KNIGHT_SCORE * m.black_knights
                  + BISHOP_SCORE * m.black_bishops + ROOK_SCORE * m.black_rooks
                  + QUEEN_SCORE * m.black_queens
        \* encourage trading pieces if ahead in material or pawns if behind
        white1 == IF white0 > black0 + 50 THEN white0 + 4 * m.white_pawns
                  ELSE IF black0 > white0 + 50 THEN white0 - 4 * m.white_pawns
                  ELSE white0
        black1 == IF white0 > black0 + 50 THEN black0 - 4 * m.black_pawns
                  ELSE IF black0 > white0 + 50 THEN black0 + 4 * m.black_pawns
                  ELSE black0
    IN (white1 + (IF m.white_bishops > 1 THEN 40 ELSE 0))
       - (black1 + (IF m.black_bishops > 1 THEN 40 ELSE 0))

\* Material::non_pawn_material
non_pawn_material(m) ==
    (3 * m.white_knights + 3 * m.white_bishops + 5 * m.white_rooks + 9 * m.white_queens)
    + (3 * m.black_knights + 3 * m.black_bishops + 5 * m.black_rooks + 9 * m.black_queens)

\* Positional::score
Positional_score(positional) ==
    LET penalty == <<0, 0, 25, 60, 90, 140, 200, 270>>
        RECURSIVE Sum(_, _)
        Sum(per_file, f) ==
            IF f > 7 THEN 0 ELSE penalty[per_file[f] + 1] + Sum(per_file, f + 1)
    IN Sum(positional.black_pawns_per_file, 0) - Sum(positional.white_pawns_per_file, 0)

\* Eval::mobility_for_side
mobility_for_side(white, pos) ==
    LET u == pos.pieces[b2i(white)]
        rank3 == IF white THEN RANK_3 ELSE RANK_6
        pawn_stop_squares == forward(pawns(pos) \cap u, white, 1)
        pawn_mobility0 == pawn_stop_squares \ pos.all_pieces
        pawn_mobility1 ==
            pawn_mobility0 \cup (forward(pawn_mobility0 \cap rank3, white, 1) \ pos.all_pieces)
        pawn_mobility ==
            pawn_mobility1
            \cup ((pos.all_pieces \ u)
                  \cap (left(pawn_stop_squares, 1) \cup right(pawn_stop_squares, 1)))
        their_pawns == pawns(pos) \ u
        their_pawn_attacks ==
            left(forward(their_pawns, ~white, 1), 1) \cup right(forward(their_pawns, ~white, 1), 1)
        KNIGHT_MOBILITY == <<-20, 40, 80, 120, 130, 140, 150, 160, 170>>
        KNIGHT_MOBILITY_AVG == 108
        BISHOP_MOBILITY == <<0, 40, 80, 100, 110, 115, 120, 125, 130, 135, 140, 145, 150, 155>>
        BISHOP_MOBILITY_AVG == 110
        ROOK_MOBILITY == <<0, 40, 80, 90, 100, 105, 110, 115, 120, 125, 130, 135, 140, 145, 150>>
        ROOK_MOBILITY_AVG == 105
        RECURSIVE Knights(_)
        Knights(sqs) ==
            IF sqs = <<>> THEN 0
            ELSE KNIGHT_MOBILITY[popcount(KNIGHT_ATTACKS(Head(sqs)) \ their_pawn_attacks) + 1]
                 - KNIGHT_MOBILITY_AVG + Knights(Tail(sqs))
        RECURSIVE Bishops(_)
        Bishops(sqs) ==
            IF sqs = <<>> THEN 0
            ELSE BISHOP_MOBILITY[popcount(get_bishop_attacks_from(Head(sqs), pos.all_pieces)) + 1]
                 - BISHOP_MOBILITY_AVG + Bishops(Tail(sqs))
        RECURSIVE Rooks(_)
        Rooks(sqs) ==
            IF sqs = <<>> THEN 0
            ELSE ROOK_MOBILITY[popcount(get_rook_attacks_from(Head(sqs), pos.all_pieces)) + 1]
                 - ROOK_MOBILITY_AVG + Rooks(Tail(sqs))
    IN 6 * popcount(pawn_mobility) + Knights(squares(knights(pos) \cap u))
       + Bishops(squares(bishops(pos) \cap u)) + Rooks(squares(rooks(pos) \cap u))

\* Eval::rooks_for_side
rooks_for_side(pos, white) ==
    LET u == pos.pieces[b2i(white)]
        OPEN_FILE_BONUS == 15
        HALF_OPEN_FILE_BONUS == 5
        RECURSIVE Sum(_)
        Sum(sqs) ==
            IF sqs = <<>> THEN 0
            ELSE LET file_bb == FILES[file(Head(sqs))]
                 IN (IF pawns(pos) \cap file_bb = {} THEN OPEN_FILE_BONUS
                     ELSE IF pawns(pos) \cap u \cap file_bb = {} THEN HALF_OPEN_FILE_BONUS
                     ELSE 0) + Sum(Tail(sqs))
    IN Sum(squares(rooks(pos) \cap u))

\* A variant of king_safety_for_side that returns early only if the
\* opponent has no rook at all.
king_safety_for_side_skipping_without_rooks(material, pos, white) ==
    LET u == pos.pieces[b2i(white)]
        th == Not(u)
        CENTER_DISTANCE ==
            <<3, 3, 3, 3, 3, 3, 3, 3,
              3, 2, 2, 2, 2, 2, 2, 3,
              3, 2, 1, 1, 1, 1, 2, 3,
              3, 2, 1, 0, 0, 1, 2, 3,
              3, 2, 1, 0, 0, 1, 2, 3,
              3, 2, 1, 1, 1, 1, 2, 3,
              3, 2, 2, 2, 2, 2, 2, 3,
              3, 3, 3, 3, 3, 3, 3, 3>>
        king == kings(pos) \cap u
        king_sq_ == Head(squares(king))
        king_file == FILES[file(king_sq_)]
        adjacent_files == left(king, 1) \cup king \cup right(king, 1)
        front == forward(adjacent_files, white, 1)
        distant_front == forward(adjacent_files, white, 2)
        eg_penalty == CENTER_DISTANCE[king_sq_ + 1]
        skip_king_safety ==
            \/ (white /\ material.black_queens = 0 /\ material.black_rooks = 0)
            \/ (~white /\ material.white_queens = 0 /\ material.white_rooks = 0)
        index ==
            (3 - popcount(front \cap pawns(pos) \cap u)) * 2
            + (3 - popcount(distant_front \cap pawns(pos) \cap u))
            + popcount(front \cap pawns(pos) \cap th)
            + popcount(distant_front \cap pawns(pos) \cap th)
            + (IF king_file \cap pawns(pos) = {} THEN 2 ELSE 0)
            + (IF popcount(king_file \cap pawns(pos)) = 1 THEN 1 ELSE 0)
            + (IF king_file \cap rooks(pos) \cap th /= {} THEN 1 ELSE 0)
    IN IF skip_king_safety
       THEN [mg |-> 0, eg |-> (0 - 5) * eg_penalty, shield |-> FALSE]
       ELSE [mg |-> 0 - index * index, eg |-> (0 - 5) * eg_penalty, shield |-> TRUE]

\* Eval::king_safety_for_side: <<mg, eg>>, and whether the pawn shield and
\* the files were looked at
king_safety_for_side(material, pos, white) ==
    LET u == pos.pieces[b2i(white)]
        th == Not(u)
        CENTER_DISTANCE ==
            <<3, 3, 3, 3, 3, 3, 3, 3,
              3, 2, 2, 2, 2, 2, 2, 3,
              3, 2, 1, 1, 1, 1, 2, 3,
              3, 2, 1, 0, 0, 1, 2, 3,
              3, 2, 1, 0, 0, 1, 2, 3,
              3, 2, 1, 1, 1, 1, 2, 3,
              3, 2, 2, 2, 2, 2, 2, 3,
              3, 3, 3, 3, 3, 3, 3, 3>>
        king == kings(pos) \cap u
        king_sq_ == Head(squares(king))
        king_file == FILES[file(king_sq_)]
        adjacent_files == left(king, 1) \cup king \cup right(king, 1)
        front == forward(adjacent_files, white, 1)
        distant_front == forward(adjacent_files, white, 2)
        eg_penalty == CENTER_DISTANCE[king_sq_ + 1]
        skip_king_safety ==
            \/ (white /\ material.black_queens = 0 /\ material.black_rooks <= 1)
            \/ (~white /\ material.white_queens = 0 /\ material.white_rooks <= 1)
        index ==
            (3 - popcount(front \cap pawns(pos) \cap u)) * 2
            + (3 - popcount(distant_front \cap pawns(pos) \cap u))
            + popcount(front \cap pawns(pos) \cap th)
            + popcount(distant_front \cap pawns(pos) \cap th)
            + (IF king_file \cap pawns(pos) = {} THEN 2 ELSE 0)
            + (IF popcount(king_file \cap pawns(pos)) = 1 THEN 1 ELSE 0)
            + (IF king_file \cap rooks(pos) \cap th /= {} THEN 1 ELSE 0)
    IN IF skip_king_safety
       THEN [mg |-> 0, eg |-> (0 - 5) * eg_penalty, shield |-> FALSE]
       ELSE [mg |-> 0 - index * index, eg |-> (0 - 5) * eg_penalty, shield |-> TRUE]

\* A 16-bit result as a release build keeps it: reduced modulo 2^16 into
\* -32768..32767.
Wrap16(x) == ((x + 32768) % 65536) - 32768

\* Eval::score.  Score is i16: a result outside -32768..32767 stops a build
\* with overflow checks and wraps around in one without.  value is the score
\* of the wrapping build; steps are the results of the arithmetic of the
\* function's own body before they are stored in 16 bits.
Eval_score(eval, table, pos, pawn_hash) ==
    LET W(x) == Wrap16(x)
        r1 == 0 + Material_score(eval.material)
        r2 == eval.pst[1] - eval.pst[0]
        r3 == W(r1) + W(r2)
        r4 == W(r3) + Positional_score(eval.positional)
        r5 == mobility_for_side(TRUE, pos) - mobility_for_side(FALSE, pos)
        r6 == W(r4) + W(r5)
        r7 == rooks_for_side(pos, TRUE) - rooks_for_side(pos, FALSE)
        r8 == W(r6) + W(r7)
        phase == non_pawn_material(eval.material)
        \* king_safety
        wk == king_safety_for_side(eval.material, pos, TRUE)
        bk == king_safety_for_side(eval.material, pos, FALSE)
        king_mg == wk.mg - bk.mg
        king_eg == wk.eg - bk.eg
        k1 == W(king_mg) * phase
        k2 == 62 - phase
        k3 == W(king_eg) * W(k2)
        k4 == W(k1) + W(k3)
        r9 == W(r8) + Quot(W(k4), 62)
        pw == Eval_pawns(table, pos, pawn_hash).result
        p1 == pw[1] * phase
        p3 == pw[2] * W(k2)
        p4 == W(p1) + W(p3)
        r10 == W(r9) + Quot(W(p4), 62)
        r11 == IF pos.white_to_move THEN W(r10) ELSE 0 - W(r10)
    IN [value |-> W(r11),
        steps |-> <<r1, r2, r3, r4, r5, r6, r7, r8, king_mg, king_eg, k1, k2, k3, k4,
                    r9, p1, p3, p4, r10, r11>>]

\* A variant of eval_make_move that leaves the rook of a castling on its
\* corner in the piece-square sum.
eval_make_move_castling_rook_unscored(eval, mov, pos) ==
    LET wtm == pos.white_to_move
        me == b2i(wtm)
        \* PST of the mover, of the captured piece and of the castling rook
        pst1 == [eval.pst EXCEPT ![me] = @ - pst(PST(mov.piece), wtm, mov.from)]
        pst2 == [pst1 EXCEPT ![me] =
                    @ + pst(PST(IF mov.promoted /= None THEN mov.promoted ELSE mov.piece),
                            wtm, mov.to)]
        pst3 == IF mov.captured = None THEN pst2
                ELSE IF mov.en_passant
                THEN [pst2 EXCEPT ![1 - me] =
                         @ - pst(PST(Pawn), ~wtm, sq_backward(mov.to, wtm, 1))]
                ELSE [pst2 EXCEPT ![1 - me] = @ - pst(PST(mov.captured), ~wtm, mov.to)]
        pst4 == IF mov.piece = King /\ mov.to = mov.from + 2
                THEN [pst3 EXCEPT ![me] = @ - pst(PST(Rook), wtm, sq_right(mov.to, 1))
                                            + pst(PST(Rook), wtm, sq_left(mov.to, 1))]
                ELSE IF mov.piece = King /\ mov.from = mov.to + 2
                THEN [pst3 EXCEPT ![me] = @ - pst(PST(Rook), wtm, sq_left(mov.to, 2))
                                            + pst(PST(Rook), wtm, sq_right(mov.to, 1))]
                ELSE pst3
        \* pawns per file
        pf1 == IF mov.piece = Pawn
               THEN [eval.positional EXCEPT ![PerFileField(wtm)][file(mov.from)] = @ - 1]
               ELSE eval.positional
        pf2 == IF mov.captured = Pawn
               THEN [pf1 EXCEPT ![PerFileField(~wtm)][file(mov.to)] = @ - 1]
               ELSE pf1
        pf3 == IF mov.piece = Pawn /\ mov.promoted = None
               THEN [pf2 EXCEPT ![PerFileField(wtm)][file(mov.to)] = @ + 1]
               ELSE pf2
        \* material
        m1 == IF mov.captured \in {Pawn, Knight, Bishop, Rook, Queen}
              THEN [eval.material EXCEPT ![MaterialField(~wtm, mov.captured)] = @ - 1]
              ELSE eval.material
        m2 == IF mov.piece = Pawn /\ mov.promoted \in {Knight, Bishop, Rook, Queen}
              THEN [m1 EXCEPT ![MaterialField(wtm, Pawn)] = @ - 1,
                              ![MaterialField(wtm, mov.promoted)] = @ + 1]
              ELSE m1
    IN [material |-> m2, pst |-> pst3, positional |-> pf3]

\* Eval::make_move, called with the position before the move
eval_make_move(eval, mov, pos) ==
    LET wtm == pos.white_to_move
        me == b2i(wtm)
        \* PST of the mover, of the captured piece and of the castling rook
        pst1 == [eval.pst EXCEPT ![me] = @ - pst(PST(mov.piece), wtm, mov.from)]
        pst2 == [pst1 EXCEPT ![me] =
                    @ + pst(PST(IF mov.promoted /= None THEN mov.promoted ELSE mov.piece),
                            wtm, mov.to)]
        pst3 == IF mov.captured = None THEN pst2
                ELSE IF mov.en_passant
                THEN [pst2 EXCEPT ![1 - me] =
                         @ - pst(PST(Pawn), ~wtm, sq_backward(mov.to, wtm, 1))]
                ELSE [pst2 EXCEPT ![1 - me] = @ - pst(PST(mov.captured), ~wtm, mov.to)]
        pst4 == IF mov.piece = King /\ mov.to = mov.from + 2
                THEN [pst3 EXCEPT ![me] = @ - pst(PST(Rook), wtm, sq_right(mov.to, 1))
                                            + pst(PST(Rook), wtm, sq_left(mov.to, 1))]
                ELSE IF mov.piece = King /\ mov.from = mov.to + 2
                THEN [pst3 EXCEPT ![me] = @ - pst(PST(Rook), wtm, sq_left(mov.to, 2))
                                            + pst(PST(Rook), wtm, sq_right(mov.to, 1))]
                ELSE pst3
        \* pawns per file
        pf1 == IF mov.piece = Pawn
               THEN [eval.positional EXCEPT ![PerFileField(wtm)][file(mov.from)] = @ - 1]
               ELSE eval.positional
        pf2 == IF mov.captured = Pawn
               THEN [pf1 EXCEPT ![PerFileField(~wtm)][file(mov.to)] = @ - 1]
               ELSE pf1
        pf3 == IF mov.piece = Pawn /\ mov.promoted = None
               THEN [pf2 EXCEPT ![PerFileField(wtm)][file(mov.to)] = @ + 1]
               ELSE pf2
        \* material
        m1 == IF mov.captured \in {Pawn, Knight, Bishop, Rook, Queen}
              THEN [eval.material EXCEPT ![MaterialField(~wtm, mov.captured)] = @ - 1]
              ELSE eval.material
        m2 == IF mov.piece = Pawn /\ mov.promoted \in {Knight, Bishop, Rook, Queen}
              THEN [m1 EXCEPT ![MaterialField(wtm, Pawn)] = @ - 1,
                              ![MaterialField(wtm, mov.promoted)] = @ + 1]
              ELSE m1
    IN [material |-> m2, pst |-> pst4, positional |-> pf3]

\* A variant of eval_unmake_material that gives the pawn back on a promotion
\* but leaves the promoted piece counted.
eval_unmake_material_keeps_promoted(material, mov, unmaking_white_move) ==
    LET m1 == IF mov.captured \in {Pawn, Knight, Bishop, Rook, Queen}
              THEN [material EXCEPT
                       ![MaterialField(~unmaking_white_move, mov.captured)] = @ + 1]
              ELSE material
    IN IF mov.piece = Pawn /\ mov.promoted \in {Knight, Bishop, Rook, Queen}
       THEN [m1 EXCEPT ![MaterialField(unmaking_white_move, Pawn)] = @ + 1]
       ELSE m1

\* Eval::unmake_move, its updates of the material counters: the captured
\* piece returns, a promotion is taken back.
eval_unmake_material(material, mov, unmaking_white_move) ==
    LET m1 == IF mov.captured \in {Pawn, Knight, Bishop, Rook, Queen}
              THEN [material EXCEPT
                       ![MaterialField(~unmaking_white_move, mov.captured)] = @ + 1]
              ELSE material
    IN IF mov.piece = Pawn /\ mov.promoted \in {Knight, Bishop, Rook, Queen}
       THEN [m1 EXCEPT ![MaterialField(unmaking_white_move, Pawn)] = @ + 1,
                       ![MaterialField(unmaking_white_move, mov.promoted)] = @ - 1]
       ELSE m1

\* Eval::unmake_move, called with the position after the move
eval_unmake_move(eval, mov, pos) ==
    LET unmaking_white_move == ~pos.white_to_move
        me == 1 - b2i(pos.white_to_move)
        opp == b2i(pos.white_to_move)
        pst1 == [eval.pst EXCEPT ![me] = @ + pst(PST(mov.piece), ~pos.white_to_move, mov.from)]
        pst2 == [pst1 EXCEPT ![me] =
                    @ - pst(PST(IF mov.promoted /= None THEN mov.promoted ELSE mov.piece),
                            ~pos.white_to_move, mov.to)]
        pst3 == IF mov.captured = None THEN pst2
                ELSE IF mov.en_passant
                THEN [pst2 EXCEPT ![opp] =
                         @ + pst(PST(Pawn), pos.white_to_move,
                                 sq_backward(mov.to, ~pos.white_to_move, 1))]
                ELSE [pst2 EXCEPT ![opp] = @ + pst(PST(mov.captured), pos.white_to_move, mov.to)]
        pst4 == IF mov.piece = King /\ mov.to = mov.from + 2
                THEN [pst3 EXCEPT ![me] =
                         @ + pst(PST(Rook), ~pos.white_to_move, sq_right(mov.to, 1))
                           - pst(PST(Rook), ~pos.white_to_move, sq_left(mov.to, 1))]
                ELSE IF mov.piece = King /\ mov.from = mov.to + 2
                THEN [pst3 EXCEPT ![me] =
                         @ + pst(PST(Rook), ~pos.white_to_move, sq_left(mov.to, 2))
                           - pst(PST(Rook), ~pos.white_to_move, sq_right(mov.to, 1))]
                ELSE pst3
        pf1 == IF mov.piece = Pawn
               THEN [eval.positional EXCEPT
                        ![PerFileField(unmaking_white_move)][file(mov.from)] = @ + 1]
               ELSE eval.positional
        pf2 == IF mov.captured = Pawn
               THEN [pf1 EXCEPT ![PerFileField(~unmaking_white_move)][file(mov.to)] = @ + 1]
               ELSE pf1
        pf3 == IF mov.piece = Pawn /\ mov.promoted = None
               THEN [pf2 EXCEPT ![PerFileField(unmaking_white_move)][file(mov.to)] = @ - 1]
               ELSE pf2
    IN [material |-> eval_unmake_material(eval.material, mov, unmaking_white_move),
        pst |-> pst4, positional |-> pf3]

(***************************************************************************)
(* The search that owns a Position, a Hasher and an Eval: it calls their   *)
(* make and unmake in lockstep and keeps the stack of the moves made with  *)
(* the IrreversibleDetails saved before each.                              *)
(***************************************************************************)
\* The longest line of moves and null moves that is made before unmaking.
MaxPly == 2

\* rnbqkbnr/pppppppp/8/8/8/8/PPPPPPPP/RNBQKBNR w KQkq - 0 1
\* the standard starting position
FEN_START ==
    <<<<"r", "n", "b", "q", "k", "b", "n", "r", "/", "p", "p", "p", "p", "p", "p", "p", "p", "/", "8", "/", "8", "/", "8", "/", "8", "/", "P", "P", "P", "P", "P", "P", "P", "P", "/", "R", "N", "B", "Q", "K", "B", "N", "R">>,
       <<"w">>,
       <<"K", "Q", "k", "q">>,
       <<"-">>,
       <<"0">>,
       <<"1">>>>

\* r3k2r/7p/8/8/8/8/7P/R3K2R w KQkq - 3 10
\* both sides may castle both ways; the a-file is open
FEN_CASTLE_W ==
    <<<<"r", "3", "k", "2", "r", "/", "7", "p", "/", "8", "/", "8", "/", "8", "/", "8", "/", "7", "P", "/", "R", "3", "K", "2", "R">>,
       <<"w">>,
       <<"K", "Q", "k", "q">>,
       <<"-">>,
       <<"3">>,
       <<"1", "0">>>>

\* r3k2r/7p/8/8/8/8/7P/R3K2R b KQkq - 3 10
\* the same, Black to move
FEN_CASTLE_B ==
    <<<<"r", "3", "k", "2", "r", "/", "7", "p", "/", "8", "/", "8", "/", "8", "/", "8", "/", "7", "P", "/", "R", "3", "K", "2", "R">>,
       <<"b">>,
       <<"K", "Q", "k", "q">>,
       <<"-">>,
       <<"3">>,
       <<"1", "0">>>>

\* 1n2k3/P1p5/8/3P4/4p3/8/p4P2/1N2K3 w - - 0 20
\* promotions, capture-promotions and double pushes next to enemy pawns
FEN_PAWNS_W ==
    <<<<"1", "n", "2", "k", "3", "/", "P", "1", "p", "5", "/", "8", "/", "3", "P", "4", "/", "4", "p", "3", "/", "8", "/", "p", "4", "P", "2", "/", "1", "N", "2", "K", "3">>,
       <<"w">>,
       <<"-">>,
       <<"-">>,
       <<"0">>,
       <<"2", "0">>>>

\* 1n2k3/P1p5/8/3P4/4p3/8/p4P2/1N2K3 b - - 0 20
\* the same, Black to move
FEN_PAWNS_B ==
    <<<<"1", "n", "2", "k", "3", "/", "P", "1", "p", "5", "/", "8", "/", "3", "P", "4", "/", "4", "p", "3", "/", "8", "/", "p", "4", "P", "2", "/", "1", "N", "2", "K", "3">>,
       <<"b">>,
       <<"-">>,
       <<"-">>,
       <<"0">>,
       <<"2", "0">>>>

\* 4k3/8/8/7R/1b6/8/3N4/4K2r w - - 5 30
\* White is in check by the rook, which the rook on h5 can capture, and the
\* knight is pinned
FEN_PIN ==
    <<<<"4", "k", "3", "/", "8", "/", "8", "/", "7", "R", "/", "1", "b", "6", "/", "8", "/", "3", "N", "4", "/", "4", "K", "2", "r">>,
       <<"w">>,
       <<"-">>,
       <<"-">>,
       <<"5">>,
       <<"3", "0">>>>

\* 4k3/8/8/8/8/5r2/8/R3K2R w KQ - 7 25
\* the kingside castling path is attacked
FEN_THROUGH ==
    <<<<"4", "k", "3", "/", "8", "/", "8", "/", "8", "/", "8", "/", "5", "r", "2", "/", "8", "/", "R", "3", "K", "2", "R">>,
       <<"w">>,
       <<"K", "Q">>,
       <<"-">>,
       <<"7">>,
       <<"2", "5">>>>

\* 8/8/8/8/k2Pp2Q/8/8/4K3 b - d3 0 40
\* capturing en passant would uncover the queen's attack on the king
FEN_EP_PIN ==
    <<<<"8", "/", "8", "/", "8", "/", "8", "/", "k", "2", "P", "p", "2", "Q", "/", "8", "/", "8", "/", "4", "K", "3">>,
       <<"b">>,
       <<"-">>,
       <<"d", "3">>,
       <<"0">>,
       <<"4", "0">>>>

\* 4k3/8/8/3p4/4P3/8/8/4K3 w - - 0 1
\* a pawn can take a pawn that nothing defends
FEN_SEE ==
    <<<<"4", "k", "3", "/", "8", "/", "8", "/", "3", "p", "4", "/", "4", "P", "3", "/", "8", "/", "8", "/", "4", "K", "3">>,
       <<"w">>,
       <<"-">>,
       <<"-">>,
       <<"0">>,
       <<"1">>>>

\* 4k3/8/8/8/8/3n4/5q2/4K3 w - - 0 1
\* the white king is attacked by the knight and by the queen
FEN_DOUBLE_CHECK ==
    <<<<"4", "k", "3", "/", "8", "/", "8", "/", "8", "/", "8", "/", "3", "n", "4", "/", "5", "q", "2", "/", "4", "K", "3">>,
       <<"w">>,
       <<"-">>,
       <<"-">>,
       <<"0">>,
       <<"1">>>>

\* r3k3/7p/3N4/8/8/8/4R3/4K3 b q - 0 1
\* the black king is attacked by the knight and by the rook; Black has a
\* rook and a pawn that could move, and the right to castle
FEN_DOUBLE_CHECK_B ==
    <<<<"r", "3", "k", "3", "/", "7", "p", "/", "3", "N", "4", "/", "8", "/", "8", "/", "8", "/", "4", "R", "3", "/", "4", "K", "3">>,
       <<"b">>,
       <<"q">>,
       <<"-">>,
       <<"0">>,
       <<"1">>>>

\* 8/P1P1P1P1/8/7k/8/8/8/4K3 w - - 0 1
\* four white passed pawns one step from promotion and no other material
FEN_PASSERS ==
    <<<<"8", "/", "P", "1", "P", "1", "P", "1", "P", "1", "/", "8", "/", "7", "k", "/", "8", "/", "8", "/", "8", "/", "4", "K", "3">>,
       <<"w">>,
       <<"-">>,
       <<"-">>,
       <<"0">>,
       <<"1">>>>

\* 4k3/8/3p4/4p3/8/8/4R3/4R1K1 w - - 0 1
\* a rook can take a defended pawn with a second rook behind it on the file
FEN_XRAY ==
    <<<<"4", "k", "3", "/", "8", "/", "3", "p", "4", "/", "4", "p", "3", "/", "8", "/", "8", "/", "4", "R", "3", "/", "4", "R", "1", "K", "1">>,
       <<"w">>,
       <<"-">>,
       <<"-">>,
       <<"0">>,
       <<"1">>>>

\* rnbqkb1r/1pppppPp/5n2/p7/8/8/PPPPPPP1/RNBQKBNR w KQkq - 0 5
\* after 1. h4 g5 2. hxg5 Nf6 3. g6 a6 4. g7 a5: the pawn on g7 can promote
\* on the empty square g8 with every piece still on the board
FEN_PROMOTE ==
    <<<<"r", "n", "b", "q", "k", "b", "1", "r", "/", "1", "p", "p", "p", "p", "p", "P", "p", "/", "5", "n", "2", "/", "p", "7", "/", "8", "/", "8", "/", "P", "P", "P", "P", "P", "P", "P", "1", "/", "R", "N", "B", "Q", "K", "B", "N", "R">>,
       <<"w">>,
       <<"K", "Q", "k", "q">>,
       <<"-">>,
       <<"0">>,
       <<"5">>>>

InitialFens ==
    {FEN_START, FEN_CASTLE_W, FEN_CASTLE_B, FEN_PAWNS_W, FEN_PAWNS_B,
     FEN_PIN, FEN_THROUGH, FEN_EP_PIN, FEN_SEE, FEN_DOUBLE_CHECK,
     FEN_DOUBLE_CHECK_B, FEN_PASSERS, FEN_XRAY, FEN_PROMOTE}

VARIABLES
    pos,      \* the Position
    hash,     \* Hasher.hash
    eval,     \* the Eval aggregates: material, pst, positional
    stack,    \* the moves made and not yet unmade, each with its saved details
    lastOp,   \* the operation that produced this state
    undone,   \* after an unmake: what the entry it popped recorded
    perft,    \* the leaf count of a tree walk, and where the walk stands
    fen,      \* the text Position::from was given
    pawn_table, \* Eval.pawn_table: the entries written so far, by index
    history,  \* History.from_to: the non-zero entries, by <<side, from, to>>
    returned, \* what the last call of a function with a result returned
    magics    \* the magic search of one square: its Magic, its slab of MAGIC_TABLE

vars == <<pos, hash, eval, stack, lastOp, undone, perft, fen, pawn_table, history, returned,
         magics>>

\* The variables the search line (make, unmake, tree walk) never writes.
aside == <<fen, pawn_table, history, returned, magics>>

NoReturn == [of |-> "none"]

\* No square's magic is being searched.
NoMagics == [piece |-> None]

NoMove == Mv(0, 0, None, None, None, FALSE)

\* The kind of a move, as the fields of Move encode it.
MoveKind(mov) ==
    IF mov.en_passant THEN "en_passant"
    ELSE IF mov.promoted /= None
    THEN IF mov.captured /= None THEN "capture_promotion" ELSE "promotion"
    ELSE IF mov.piece = King /\ mov.to = mov.from + 2 THEN "castle_kingside"
    ELSE IF mov.piece = King /\ mov.from = mov.to + 2 THEN "castle_queenside"
    ELSE IF mov.captured /= None THEN "capture"
    ELSE "quiet"

NoUndone == [kind |-> "none", white |-> FALSE, legal |-> TRUE]

NoPerft == [depth |-> 0, count |-> 0, phase |-> "off", todo |-> <<>>]

\* The entry pushed for a move: the move, the details saved for unmake, and
\* (for the properties only) whether move_is_legal accepted it and the three
\* structures as they were before it.
Entry(mov, null, legal) ==
    [mov |-> mov, null |-> null, legal |-> legal, details |-> pos.details,
     pre |-> [pos |-> pos, hash |-> hash, eval |-> eval]]

Top == stack[Len(stack)]

\* What an unmake records of the entry it pops: the kind of the move, who
\* made it, the details the move had produced and the structures before it.
Undone(kind) ==
    [kind |-> kind, white |-> Top.pre.pos.white_to_move, legal |-> Top.legal,
     made |-> pos.details, pre |-> Top.pre]

\* Every move on the stack was accepted by move_is_legal: the position is one
\* a game can reach.  Only the last move made can be a rejected one.
OnLegalLine == IF stack = <<>> THEN TRUE ELSE Top.legal

Init ==
    /\ fen \in InitialFens
    /\ pos = Position_from(fen)
    /\ hash = {}
    /\ eval = Eval_from(pos)
    /\ stack = <<>>
    /\ lastOp = "new"
    /\ undone = NoUndone
    /\ perft = NoPerft
    /\ pawn_table = <<>>
    /\ history = <<>>
    /\ returned = NoReturn
    /\ magics = NoMagics

\* make_move on Hasher and Eval (with the position before the move), then on
\* Position.
Make(mov) ==
    /\ hash' = hash_make_move(hash, pos, mov)
    /\ eval' = eval_make_move(eval, mov, pos)
    /\ pos' = make_move(pos, mov)
    /\ stack' = Append(stack, Entry(mov, FALSE, move_is_legal(pos, mov)))
    /\ lastOp' = "make_move"
    /\ undone' = NoUndone
    /\ UNCHANGED aside

\* unmake_move on Hasher and Eval (with the position after the move), then on
\* Position, with the details saved by the matching make.
Unmake ==
    /\ hash' = hash_unmake_move(hash, pos, Top.mov, Top.details)
    /\ eval' = eval_unmake_move(eval, Top.mov, pos)
    /\ pos' = unmake_move(pos, Top.mov, Top.details)
    /\ stack' = SubSeq(stack, 1, Len(stack) - 1)
    /\ lastOp' = "unmake_move"
    /\ undone' = Undone(MoveKind(Top.mov))
    /\ UNCHANGED aside

\* The search makes any move of all_moves: one that move_is_legal rejects is
\* made too and can only be unmade.
MakeMove ==
    /\ Len(stack) < MaxPly
    /\ OnLegalLine
    /\ \E mov \in Range(all_moves(pos)) : Make(mov)
    /\ UNCHANGED perft

UnmakeMove ==
    /\ stack /= <<>>
    /\ ~Top.null
    /\ Unmake
    /\ UNCHANGED perft

\* A null move, made by the search only when the side to move is not in check.
MakeNullmove ==
    /\ Len(stack) < MaxPly
    /\ OnLegalLine
    /\ ~in_check(pos)
    /\ hash' = hash_make_nullmove(hash, pos)
    /\ pos' = make_nullmove(pos)
    /\ stack' = Append(stack, Entry(NoMove, TRUE, TRUE))
    /\ lastOp' = "make_nullmove"
    /\ undone' = NoUndone
    /\ UNCHANGED <<eval, perft>>
    /\ UNCHANGED aside

UnmakeNullmove ==
    /\ stack /= <<>>
    /\ Top.null
    /\ hash' = hash_unmake_nullmove(hash, pos, Top.details)
    /\ pos' = unmake_nullmove(pos, Top.details)
    /\ stack' = SubSeq(stack, 1, Len(stack) - 1)
    /\ lastOp' = "unmake_nullmove"
    /\ undone' = Undone("null")
    /\ UNCHANGED <<eval, perft>>
    /\ UNCHANGED aside

Next == MakeMove \/ UnmakeMove \/ MakeNullmove \/ UnmakeNullmove

Spec == Init /\ [][Next]_vars

(***************************************************************************)
(* The same operations from positions given with a high halfmove clock:    *)
(* the clock field of a FEN text is parsed into the u8 as it stands.       *)
(***************************************************************************)
\* 4k3/8/8/8/8/8/8/R3K3 w Q - 254 130
FEN_CLOCK_254 ==
    <<<<"4", "k", "3", "/", "8", "/", "8", "/", "8", "/", "8", "/", "8", "/", "8", "/", "R", "3", "K", "3">>,
       <<"w">>,
       <<"Q">>,
       <<"-">>,
       <<"2", "5", "4">>,
       <<"1", "3", "0">>>>

\* 4k3/8/8/8/8/8/8/R3K3 b Q - 255 130
FEN_CLOCK_255 ==
    <<<<"4", "k", "3", "/", "8", "/", "8", "/", "8", "/", "8", "/", "8", "/", "8", "/", "R", "3", "K", "3">>,
       <<"b">>,
       <<"Q">>,
       <<"-">>,
       <<"2", "5", "5">>,
       <<"1", "3", "0">>>>

ClockInit ==
    /\ fen \in {FEN_CLOCK_254, FEN_CLOCK_255}
    /\ pos = Position_from(fen)
    /\ hash = {}
    /\ eval = Eval_from(pos)
    /\ stack = <<>>
    /\ lastOp = "new"
    /\ undone = NoUndone
    /\ perft = NoPerft
    /\ pawn_table = <<>>
    /\ history = <<>>
    /\ returned = NoReturn
    /\ magics = NoMagics

SpecClock == ClockInit /\ [][Next]_vars

(***************************************************************************)
(* The move tree of the starting position: all_moves filtered by           *)
(* move_is_legal, applied with make_move.  The walk makes and unmakes the  *)
(* moves of the upper plies one at a time and counts the leaves below a    *)
(* node two plies above the horizon in one step.                           *)
(***************************************************************************)
\* The deepest tree that is walked.
PerftDepth == 4

\* all_moves() filtered by move_is_legal, in generation order
legal_moves(pos_) == SelectSeq(all_moves(pos_), LAMBDA m : move_is_legal(pos_, m))

\* The number of leaves d plies below pos_.
RECURSIVE Perft(_, _)
Perft(pos_, d) ==
    IF d = 0 THEN 1
    ELSE LET ms == legal_moves(pos_)
             RECURSIVE Sum(_)
             Sum(i) == IF i > Len(ms) THEN 0
                       ELSE Perft(make_move(pos_, ms[i]), d - 1) + Sum(i + 1)
         IN IF d = 1 THEN Len(ms) ELSE Sum(1)

\* The plies between the current node and the horizon.
Remaining == perft.depth - Len(stack)

PerftInit ==
    /\ pos = STARTING_POSITION
    /\ hash = {}
    /\ eval = Eval_from(pos)
    /\ stack = <<>>
    /\ lastOp = "new"
    /\ undone = NoUndone
    /\ \E d \in 1..PerftDepth :
          perft = [depth |-> d, count |-> 0, phase |-> "enter", todo |-> <<>>]
    /\ fen = <<>>
    /\ pawn_table = <<>>
    /\ history = <<>>
    /\ returned = NoReturn
    /\ magics = NoMagics

\* A node at most two plies above the horizon: its leaves are counted.
PerftCount ==
    /\ perft.phase = "enter"
    /\ Remaining <= 2
    /\ perft' = [perft EXCEPT !.count = @ + Perft(pos, Remaining), !.phase = "leave"]
    /\ UNCHANGED <<pos, hash, eval, stack, lastOp, undone>>
    /\ UNCHANGED aside

\* A node higher up: its legal moves are generated, to be made in turn.
PerftExpand ==
    /\ perft.phase = "enter"
    /\ Remaining > 2
    /\ perft' = [perft EXCEPT !.todo = Append(@, legal_moves(pos)), !.phase = "iterate"]
    /\ UNCHANGED <<pos, hash, eval, stack, lastOp, undone>>
    /\ UNCHANGED aside

\* The next move of the node is made.
PerftMake ==
    /\ perft.phase = "iterate"
    /\ perft.todo[Len(perft.todo)] /= <<>>
    /\ Make(Head(perft.todo[Len(perft.todo)]))
    /\ perft' = [perft EXCEPT !.todo[Len(perft.todo)] = Tail(@), !.phase = "enter"]

\* The node is finished and the move that led to it is unmade.
PerftUnmake ==
    /\ stack /= <<>>
    /\ IF perft.phase = "iterate" THEN perft.todo[Len(perft.todo)] = <<>>
       ELSE perft.phase = "leave"
    /\ Unmake
    /\ perft' = [perft EXCEPT
                    !.todo = IF perft.phase = "iterate"
                             THEN SubSeq(@, 1, Len(@) - 1) ELSE @,
                    !.phase = "iterate"]

\* The root is finished.
PerftFinish ==
    /\ stack = <<>>
    /\ perft.phase = "iterate"
    /\ perft.todo[Len(perft.todo)] = <<>>
    /\ perft' = [perft EXCEPT !.todo = <<>>, !.phase = "leave"]
    /\ UNCHANGED <<pos, hash, eval, stack, lastOp, undone>>
    /\ UNCHANGED aside

PerftDone == perft.phase = "leave" /\ stack = <<>>

NextPerft == PerftCount \/ PerftExpand \/ PerftMake \/ PerftUnmake \/ PerftFinish

SpecPerft == PerftInit /\ [][NextPerft]_vars

(***************************************************************************)
(* Position::from applied to FEN texts put together field by field; the    *)
(* later fields may be absent.                                             *)
(***************************************************************************)
FenBoards == {FEN_START[1], FEN_PAWNS_W[1], FEN_EP_PIN[1]}

FenSides == {<<"w">>, <<"b">>}

FenCastlings ==
    {<<"-">>}
    \cup {SelectSeq(<<"K", "Q", "k", "q">>, LAMBDA c : c \in S) :
             S \in (SUBSET {"K", "Q", "k", "q"}) \ {{}}}

FenEnPassants ==
    {<<"-">>} \cup {<<FileChars[i], "3">> : i \in 1..8} \cup {<<"c", "6">>}

\* Clock texts with the numbers they denote.
FenHalfmoves == {[text |-> <<"0">>, value |-> 0], [text |-> <<"4", "2">>, value |-> 42]}

FenFullmoves == {[text |-> <<"1">>, value |-> 1], [text |-> <<"3", "0">>, value |-> 30]}

FenInputs ==
    LET three == {<<b, s, c>> : b \in FenBoards, s \in FenSides, c \in FenCastlings}
        four == {f \o <<e>> : f \in three, e \in FenEnPassants}
        five == {f \o <<h.text>> : f \in four, h \in FenHalfmoves}
        six == {f \o <<n.text>> : f \in five, n \in FenFullmoves}
    IN three \cup four \cup five \cup six

FenInit ==
    /\ fen \in FenInputs
    /\ pos = EmptyPosition
    /\ hash = {}
    /\ eval = Eval_from(STARTING_POSITION)
    /\ stack = <<>>
    /\ lastOp = "fen"
    /\ undone = NoUndone
    /\ perft = NoPerft
    /\ pawn_table = <<>>
    /\ history = <<>>
    /\ returned = NoReturn
    /\ magics = NoMagics

\* Position::from(fen)
PositionFrom ==
    /\ lastOp = "fen"
    /\ pos' = Position_from(fen)
    /\ lastOp' = "from"
    /\ UNCHANGED <<hash, eval, stack, undone, perft, fen, pawn_table, history, returned, magics>>

NextFen == PositionFrom

SpecFen == FenInit /\ [][NextFen]_vars

(***************************************************************************)
(* Position::from and Move::from_algebraic applied to texts that need not  *)
(* be well formed.                                                         *)
(***************************************************************************)
\* FEN_START with its board, castling or en-passant field replaced
WithField(n, field) == [FEN_START EXCEPT ![n] = field]

InputFens ==
    {FEN_START, FEN_PAWNS_W, FEN_EP_PIN, FEN_CASTLE_B,
     SubSeq(FEN_START, 1, 3), SubSeq(FEN_START, 1, 2),
     WithField(1, [FEN_START[1] EXCEPT ![1] = "x"]),
     WithField(1, [FEN_START[1] EXCEPT ![19] = "9"]),
     WithField(1, [FEN_START[1] EXCEPT ![5] = "Q"]),
     WithField(3, <<"K", "x">>),
     WithField(3, <<"-", "x">>),
     WithField(4, <<"z", "3">>),
     WithField(4, <<"3">>)}

\* Coordinate texts: every pairing of three file characters and three rank
\* characters, one of each outside a-h and 1-8, and texts with a promotion
\* character or without the last coordinate.
InputMoves ==
    LET fs == {"a", "e", "z"}
        rs == {"2", "4", "9"}
        four == {<<f1, r1, f2, r2>> : f1 \in fs, r1 \in rs, f2 \in fs, r2 \in rs}
    IN four \cup {<<"e", "2", "e">>, <<"e", "2", "e", "4", "q">>, <<"e", "2", "e", "4", "x">>}

InputInit ==
    /\ fen \in InputFens
    /\ pos = EmptyPosition
    /\ hash = {}
    /\ eval = Eval_from(STARTING_POSITION)
    /\ stack = <<>>
    /\ lastOp = "input"
    /\ undone = NoUndone
    /\ perft = NoPerft
    /\ pawn_table = <<>>
    /\ history = <<>>
    /\ returned = NoReturn
    /\ magics = NoMagics

\* Position::from(fen)
FromInput ==
    /\ lastOp = "input"
    /\ pos' = Position_from(fen)
    /\ lastOp' = "from"
    /\ UNCHANGED <<hash, eval, stack, undone, perft, fen, pawn_table, history, returned, magics>>

\* Move::from_algebraic(pos, alg) on a position that was built
FromAlgebraic ==
    /\ lastOp = "from"
    /\ ~IsPanic(pos)
    /\ \E alg \in InputMoves :
          returned' = [of |-> "from_algebraic", alg |-> alg, value |-> from_algebraic(pos, alg)]
    /\ lastOp' = "from_algebraic"
    /\ UNCHANGED <<pos, hash, eval, stack, undone, perft, fen, pawn_table, history, magics>>

NextInput == FromInput \/ FromAlgebraic

SpecInput == InputInit /\ [][NextInput]_vars

(***************************************************************************)
(* Material::is_draw applied to material counts drawn from small ranges.   *)
(***************************************************************************)
\* The most knights or bishops a side has.
MaxMinors == 3

\* The most pawns, rooks or queens a side has.
MaxOthers == 1

Materials ==
    [white_pawns : 0..MaxOthers, white_knights : 0..MaxMinors,
     white_bishops : 0..MaxMinors, white_rooks : 0..MaxOthers,
     white_queens : 0..MaxOthers,
     black_pawns : 0..MaxOthers, black_knights : 0..MaxMinors,
     black_bishops : 0..MaxMinors, black_rooks : 0..MaxOthers,
     black_queens : 0..MaxOthers]

MaterialInit ==
    /\ fen = <<>>
    /\ pos = EmptyPosition
    /\ hash = {}
    /\ \E m \in Materials : eval = [Eval_from(STARTING_POSITION) EXCEPT !.material = m]
    /\ stack = <<>>
    /\ lastOp = "material"
    /\ undone = NoUndone
    /\ perft = NoPerft
    /\ pawn_table = <<>>
    /\ history = <<>>
    /\ returned = NoReturn
    /\ magics = NoMagics

\* Material::is_draw()
IsDraw ==
    /\ lastOp = "material"
    /\ returned' = [of |-> "is_draw", value |-> is_draw(eval.material)]
    /\ lastOp' = "is_draw"
    /\ UNCHANGED <<pos, hash, eval, stack, undone, perft, fen, pawn_table, history, magics>>

NextMaterial == IsDraw

SpecMaterial == MaterialInit /\ [][NextMaterial]_vars

(***************************************************************************)
(* Eval::pawns called again and again on one Eval, with positions that     *)
(* differ in their pawns and with pawn hashes that share table slots.      *)
(***************************************************************************)
\* Pawns on h2, e4 and d5 as <<white pawns, black pawns>>: none at all, and
\* placements that share their pawn squares and differ in the colours.
PawnPlacements ==
    {<<{}, {}>>, <<{15}, {}>>, <<{28}, {35}>>, <<{35}, {28}>>,
     <<{15, 28}, {35}>>, <<{35}, {15, 28}>>}

\* The kings on e1 and e8 and the given pawns.
PositionWithPawns(white_pawns, black_pawns) ==
    LET white == white_pawns \cup {SQUARE_E1}
        black == black_pawns \cup {SQUARE_E8}
    IN [EmptyPosition EXCEPT
           !.bb = [p \in Pieces |-> IF p = Pawn THEN white_pawns \cup black_pawns
                                    ELSE IF p = King THEN {SQUARE_E1, SQUARE_E8}
                                    ELSE {}],
           !.color = white,
           !.pieces = (0 :> black) @@ (1 :> white),
           !.all_pieces = white \cup black,
           !.details = [en_passant |-> NO_EP, castling |-> 0, halfmove |-> 0]]

PawnPositions == {PositionWithPawns(wb[1], wb[2]) : wb \in PawnPlacements}

\* Two of the three hashes select the same entry of the table.
PawnHashes == {0, 5, PAWN_TABLE_NUM_ENTRIES + 5}

PawnsInit ==
    /\ fen = <<>>
    /\ pos = PositionWithPawns({}, {})
    /\ hash = {}
    /\ eval = Eval_from(pos)
    /\ stack = <<>>
    /\ lastOp = "new"
    /\ undone = NoUndone
    /\ perft = NoPerft
    /\ pawn_table = <<>>
    /\ history = <<>>
    /\ returned = NoReturn
    /\ magics = NoMagics

\* Eval::pawns(pos, pawn_hash); what is recorded of the call: the pair
\* returned, the entry the call found in the table, and whether the pair is
\* that entry's.
Pawns ==
    \E p \in PawnPositions, h \in PawnHashes :
        LET call == Eval_pawns(pawn_table, p, h)
        IN /\ pos' = p
           /\ pawn_table' = call.table
           /\ returned' = [of |-> "pawns", value |-> call.result, hit |-> call.hit,
                           found |-> PawnTableEntry(pawn_table, h % PAWN_TABLE_NUM_ENTRIES)]
           /\ lastOp' = "pawns"
           /\ UNCHANGED <<hash, eval, stack, undone, perft, fen, history, magics>>

NextPawns == Pawns

SpecPawns == PawnsInit /\ [][NextPawns]_vars

(***************************************************************************)
(* history.rs: History                                                     *)
(*                                                                         *)
(* from_to is a table of 2 x 64 x 64 entries that start at 0; history      *)
(* holds the entries written so far under <<side, from, to>>, and an entry *)
(* that is not there is 0 (and stays 0 when the table is rescaled).        *)
(***************************************************************************)
\* search.rs: the depth units of one ply
INC_PLY == 64

\* Score::max_value(), Score being i16
Score_max_value == 32767

\* self.from_to[side][from][to]
from_to(table, side, from, to) ==
    IF <<side, from, to>> \in DOMAIN table THEN table[<<side, from, to>>] ELSE 0

\* History::get_score
get_score(table, white, mov) == from_to(table, b2i(white), mov.from, mov.to)

\* A variant of increase_score that rescales only the entry it raised.
increase_score_rescaling_one_entry(table, white, mov, depth) ==
    LET d == Quot(depth, INC_PLY)
        key == <<b2i(white), mov.from, mov.to>>
        entry == from_to(table, key[1], key[2], key[3]) + d * d
        raised == (key :> entry) @@ table
    IN IF entry > Score_max_value THEN (key :> Quot(entry, 4)) @@ table ELSE raised

\* A variant of increase_score that never rescales.
increase_score_without_rescale(table, white, mov, depth) ==
    LET d == Quot(depth, INC_PLY)
        key == <<b2i(white), mov.from, mov.to>>
        entry == from_to(table, key[1], key[2], key[3]) + d * d
    IN (key :> entry) @@ table

\* History::increase_score
increase_score(table, white, mov, depth) ==
    LET d == Quot(depth, INC_PLY)
        key == <<b2i(white), mov.from, mov.to>>
        entry == from_to(table, key[1], key[2], key[3]) + d * d
        rescale == entry > Score_max_value
        raised == (key :> entry) @@ table
    IN IF rescale THEN [k \in DOMAIN raised |-> Quot(raised[k], 4)] ELSE raised

\* The moves that cause cutoffs: e2e4, g1f3 and a move back from e4 to e2.
HistoryMoves ==
    {Mv(12, 28, Pawn, None, None, FALSE), Mv(6, 21, Knight, None, None, FALSE),
     Mv(28, 12, Rook, None, None, FALSE)}

\* Depths of 100 plies (once with a fraction of a ply on top) and of 181
\* plies: the squares are 10000 and 32761; and depths of 313 and of 363
\* plies, whose squares are 97969 and 131769, three and four times the
\* greatest Score and more.
HistoryDepths == {100 * INC_PLY, 100 * INC_PLY + 63, 181 * INC_PLY, 313 * INC_PLY,
                  363 * INC_PLY}

\* The most calls of increase_score in a run.
MaxIncreases == 3

HistoryInit ==
    /\ fen = <<>>
    /\ pos = STARTING_POSITION
    /\ hash = {}
    /\ eval = Eval_from(pos)
    /\ stack = <<>>
    /\ lastOp = "new"
    /\ undone = NoUndone
    /\ perft = NoPerft
    /\ pawn_table = <<>>
    /\ history = <<>>
    /\ returned = [of |-> "none", increases |-> 0, deepest |-> 0]
    /\ magics = NoMagics

\* History::increase_score(white, mov, depth); the call is recorded with the
\* table it found and with the greatest depth of the calls so far.
IncreaseScore ==
    /\ returned.increases < MaxIncreases
    /\ \E white \in BOOLEAN, mov \in HistoryMoves, depth \in HistoryDepths :
          /\ history' = increase_score(history, white, mov, depth)
          /\ returned' = [of |-> "increase_score", increases |-> returned.increases + 1,
                          deepest |-> IF depth > returned.deepest THEN depth
                                      ELSE returned.deepest,
                          white |-> white, mov |-> mov, depth |-> depth,
                          before |-> history]
    /\ lastOp' = "increase_score"
    /\ UNCHANGED <<pos, hash, eval, stack, undone, perft, fen, pawn_table, magics>>

\* History::get_score(white, mov)
GetScore ==
    /\ \E white \in BOOLEAN, mov \in HistoryMoves :
          returned' = [of |-> "get_score", increases |-> returned.increases,
                       deepest |-> returned.deepest,
                       white |-> white, mov |-> mov,
                       value |-> get_score(history, white, mov)]
    /\ lastOp' = "get_score"
    /\ UNCHANGED <<pos, hash, eval, stack, undone, perft, fen, pawn_table, history, magics>>

NextHistory == IncreaseScore \/ GetScore

SpecHistory == HistoryInit /\ [][NextHistory]_vars

(***************************************************************************)
(* movegen.rs: the magic tables                                            *)
(*                                                                         *)
(* A u64 that is multiplied, subtracted or shifted is the sequence of its  *)
(* 8 bytes, lowest first, so that the arithmetic keeps its 64 bits.        *)
(* initialize_bishop_attacks and initialize_rook_attacks search one square *)
(* after the other and every square writes its own slab of MAGIC_TABLE;    *)
(* magics is the search of one square: the piece and square, the Magic on  *)
(* trial, the slab, the stamps last_used, tries, and found once the search *)
(* loop is left.  It starts when the vectors occupancy and reference are   *)
(* filled, before the first magic is drawn (tries 0).  What sparse_random  *)
(* yields is drawn from SparseRandoms; indices records every index the    *)
(* last run of the for loop computed.                                      *)
(***************************************************************************)
MAGIC_TABLE_LEN == 156800

\* Bitboard.0: the u64 of a set of squares.
Bytes(bb) ==
    [k \in 1..8 |->
        LET bit(f) == IF 8 * (k - 1) + f \in bb THEN 2 ^ f ELSE 0
        IN bit(0) + bit(1) + bit(2) + bit(3) + bit(4) + bit(5) + bit(6) + bit(7)]

\* Bit b of a u64.
Bit(x, b) == (x[(b \div 8) + 1] \div (2 ^ (b % 8))) % 2

\* Bitboard::from(u64): the squares of the set bits.
Bitboard(x) == {b \in 0..63 : Bit(x, b) = 1}

\* The bitwise or of two bytes.
ByteOr(a, b) ==
    LET bit(f) == IF (a \div (2 ^ f)) % 2 = 1 \/ (b \div (2 ^ f)) % 2 = 1 THEN 2 ^ f ELSE 0
    IN bit(0) + bit(1) + bit(2) + bit(3) + bit(4) + bit(5) + bit(6) + bit(7)

\* Column k of the long multiplication: the sum of a[i] * b[k + 1 - i].
RECURSIVE MulColumn(_, _, _, _)
MulColumn(a, b, k, i) ==
    IF i > k THEN 0 ELSE a[i] * b[k + 1 - i] + MulColumn(a, b, k, i + 1)

RECURSIVE MulFrom(_, _, _, _)
MulFrom(a, b, k, carry) ==
    IF k > 8 THEN <<>>
    ELSE LET col == carry + MulColumn(a, b, k, 1)
         IN <<col % 256>> \o MulFrom(a, b, k + 1, col \div 256)

\* u64::wrapping_mul: the low 64 bits of the product.
wrapping_mul(a, b) == MulFrom(a, b, 1, 0)

RECURSIVE SubFrom(_, _, _, _)
SubFrom(a, b, k, borrow) ==
    IF k > 8 THEN <<>>
    ELSE LET d == a[k] - b[k] - borrow
         IN <<(d + 256) % 256>> \o SubFrom(a, b, k + 1, IF d < 0 THEN 1 ELSE 0)

\* u64::wrapping_sub
wrapping_sub(a, b) == SubFrom(a, b, 1, 0)

RECURSIVE BitsFrom(_, _, _)
BitsFrom(x, b, shift) ==
    IF b > 63 THEN 0 ELSE Bit(x, b) * (2 ^ (b - shift)) + BitsFrom(x, b + 1, shift)

\* u64::wrapping_shr(shift) as usize: the shift count is taken modulo 64.
\* The result is a number; the shifts of Magic::index leave at most 12 bits.
wrapping_shr(x, shift) == BitsFrom(x, shift % 64, shift % 64)

\* Magic::index with a shift one bit short.
Magic_index_shift_short(m, occupied) ==
    LET shift == m.magic[8] - 1
    IN m.offset + wrapping_shr(wrapping_mul(Bytes(occupied \cap m.mask), m.magic), shift)

\* Magic::index
Magic_index(m, occupied) ==
    LET shift == m.magic[8]
    IN m.offset + wrapping_shr(wrapping_mul(Bytes(occupied \cap m.mask), m.magic), shift)

\* FILE_A | FILE_H | RANK_1 | RANK_8
border == FILES[0] \cup FILES[7] \cup RANKS[0] \cup RANKS[7]

\* The mask of a square: the squares whose occupancy the attack is looked up
\* by.  The rook's is the exclusive or of its file without the border ranks
\* and its rank without the border files.
attack_mask(piece, from) ==
    IF piece = Bishop THEN bishop_from(from, {}) \ border
    ELSE LET f == FILES[file(from)] \ (RANKS[0] \cup RANKS[7])
             r == RANKS[rank(from)] \ (FILES[0] \cup FILES[7])
         IN (f \ r) \cup (r \ f)

\* bishop_from or rook_from: the reference attack.
reference_attack(piece, from, occ) ==
    IF piece = Bishop THEN bishop_from(from, occ) ELSE rook_from(from, occ)

\* occ = (occ - mask) & mask: the subset pushed after occ.
next_occupancy(occ, mask) == Bitboard(wrapping_sub(Bytes(occ), Bytes(mask))) \cap mask

\* The n subsets the loop pushes from occ on, each the next_occupancy of the
\* one before.
RECURSIVE occupancies_from(_, _, _)
occupancies_from(occ, mask, n) ==
    IF n = 1 THEN <<occ>>
    ELSE LET first == occupancies_from(occ, mask, n \div 2)
         IN first \o occupancies_from(next_occupancy(first[Len(first)], mask), mask,
                                      n - (n \div 2))

\* The vector occupancy of a square: the loop pushes until next_occupancy is
\* empty again, which is after 2 ^ popcount(mask) subsets.
occupancy(piece, from) ==
    occupancies_from({}, attack_mask(piece, from), 2 ^ popcount(attack_mask(piece, from)))

\* The vector reference: the reference attack of every subset pushed.
reference(piece, from, occs) ==
    [i \in 1..Len(occs) |-> reference_attack(piece, from, occs[i])]

\* The sizes of the squares lo..hi - 1 together: size is 2 ^ popcount(mask).
RECURSIVE slab_sizes(_, _, _)
slab_sizes(piece, lo, hi) ==
    IF lo >= hi THEN 0
    ELSE IF lo + 1 = hi THEN 2 ^ popcount(attack_mask(piece, lo))
    ELSE slab_sizes(piece, lo, (lo + hi) \div 2) + slab_sizes(piece, (lo + hi) \div 2, hi)

\* offset when the loop reaches a square: offset += size for every square
\* before it, the bishops' from 0, the rooks' from where the bishops' end.
slab_offset(piece, from) ==
    (IF piece = Bishop THEN 0 ELSE slab_sizes(Bishop, 0, 64)) + slab_sizes(piece, 0, from)

\* sparse_random(rng) & !SHIFT_MASK | shift.wrapping_shl(56): the top five
\* bits of the random number are cleared and the shift is or-ed into the top
\* byte.
magic_number(random, shift) ==
    [random EXCEPT ![8] = ByteOr(random[8] % 8, shift % 256)]

\* search_magic with a stamp test that no entry passes: the for loop never
\* breaks off, whatever the entries written in this try hold.
RECURSIVE search_magic_never_retrying(_, _, _, _, _, _, _)
search_magic_never_retrying(m, occs, refs, lo, hi, run, tries) ==
    IF lo = hi
    THEN LET index == Magic_index(m, occs[lo])
             seen == [run EXCEPT !.indices = @ \cup {index}]
         IN IF run.table[index] /= refs[lo] /\ run.last_used[index - m.offset] > tries
            THEN [seen EXCEPT !.retry = TRUE]
            ELSE [seen EXCEPT !.table[index] = refs[lo],
                              !.last_used[index - m.offset] = tries]
    ELSE LET mid == (lo + hi) \div 2
             first == search_magic_never_retrying(m, occs, refs, lo, mid, run, tries)
         IN IF first.retry THEN first
            ELSE search_magic_never_retrying(m, occs, refs, mid + 1, hi, first, tries)

\* One run of the for loop inside 'search_magic over occupancy[lo..hi], in
\* the order of i, from the slab and the stamps in run: an entry that
\* differs from the reference and was written in this try sends the search
\* to the next magic (retry); any other entry is overwritten with the
\* reference and stamped with the try.  indices collects every index the
\* loop computed.
RECURSIVE search_magic(_, _, _, _, _, _, _)
search_magic(m, occs, refs, lo, hi, run, tries) ==
    IF lo = hi
    THEN LET index == Magic_index(m, occs[lo])
             seen == [run EXCEPT !.indices = @ \cup {index}]
         IN IF run.table[index] /= refs[lo] /\ run.last_used[index - m.offset] = tries
            THEN [seen EXCEPT !.retry = TRUE]
            ELSE [seen EXCEPT !.table[index] = refs[lo],
                              !.last_used[index - m.offset] = tries]
    ELSE LET mid == (lo + hi) \div 2
             first == search_magic(m, occs, refs, lo, mid, run, tries)
         IN IF first.retry THEN first
            ELSE search_magic(m, occs, refs, mid + 1, hi, first, tries)

\* get_bishop_attacks_from and get_rook_attacks_from as they read the table:
\* MAGIC_TABLE[magic.index(blockers)].
magic_attacks_from(m, table, blockers) == table[Magic_index(m, blockers)]

\* The squares whose search is followed: a corner and a centre square for
\* the bishop, an edge square for the rook.
MagicSquares == {<<Bishop, 0>>, <<Bishop, 27>>, <<Rook, 4>>}

\* The numbers sparse_random may yield: one that makes a magic without
\* collisions for each of the squares, one that makes a magic for the
\* bishop on a1 under which subsets with the same attack share entries, and
\* one that fits no square.
SparseRandoms ==
    {<<192, 0, 2, 136, 1, 8, 21, 194>>, <<16, 53, 4, 18, 17, 132, 72, 24>>,
     <<32, 32, 32, 0, 1, 8, 8, 145>>, <<0, 24, 2, 0, 4, 1, 128, 80>>,
     <<0, 4, 0, 0, 0, 0, 0, 5>>}

\* The searches followed give up after MaxTries magics.
MaxTries == 2

\* The blockers the attacks are looked up with: the empty board, the pieces
\* of the starting position, and boards with pieces on border squares, on
\* the square itself and next to it.
LookupBlockers ==
    {{}, RANKS[0] \cup RANKS[1] \cup RANKS[6] \cup RANKS[7],
     {0, 9, 27, 45, 63}, {4, 12, 28, 36, 60}, {1, 4, 6, 24, 28, 31},
     {3, 4, 5, 18, 27, 29, 30, 36, 54}, Squares}

MagicInit ==
    /\ fen = <<>>
    /\ pos = STARTING_POSITION
    /\ hash = {}
    /\ eval = Eval_from(pos)
    /\ stack = <<>>
    /\ lastOp = "new"
    /\ undone = NoUndone
    /\ perft = NoPerft
    /\ pawn_table = <<>>
    /\ history = <<>>
    /\ returned = NoReturn
    /\ \E sq \in MagicSquares :
          \E occs \in {occupancy(sq[1], sq[2])} :
             \E refs \in {reference(sq[1], sq[2], occs)} :
                \E offset \in {slab_offset(sq[1], sq[2])} :
                   magics = [piece |-> sq[1], from |-> sq[2], size |-> Len(occs),
                             occupancy |-> occs, reference |-> refs,
                             magic |-> [magic |-> <<0, 0, 0, 0, 0, 0, 0, 0>>,
                                        mask |-> attack_mask(sq[1], sq[2]),
                                        offset |-> offset],
                             table |-> [i \in offset..(offset + Len(occs) - 1) |-> {}],
                             last_used |-> [i \in 0..(Len(occs) - 1) |-> 0],
                             indices |-> {},
                             tries |-> 0, found |-> FALSE]

\* The first magic of a square is drawn and tries is set to 1.
FirstMagic ==
    /\ magics.piece /= None
    /\ magics.tries = 0
    /\ \E random \in SparseRandoms :
          magics' = [magics EXCEPT
                        !.magic.magic = magic_number(random, 64 - popcount(magics.magic.mask)),
                        !.tries = 1]
    /\ lastOp' = "first_magic"
    /\ UNCHANGED <<pos, hash, eval, stack, undone, perft, fen, pawn_table, history, returned>>

\* One turn of the loop 'search_magic: the for loop runs over the subsets;
\* it either breaks off with a new magic and the next try, or runs to its
\* end, and the magic is stored in BISHOP_ATTACKS or ROOK_ATTACKS.
SearchMagic ==
    /\ magics.piece /= None
    /\ ~magics.found
    /\ magics.tries >= 1
    /\ magics.tries <= MaxTries
    /\ \E run \in {search_magic(magics.magic, magics.occupancy, magics.reference,
                                1, magics.size,
                                [table |-> magics.table, last_used |-> magics.last_used,
                                 indices |-> {}, retry |-> FALSE],
                                magics.tries)} :
          IF run.retry
          THEN \E random \in SparseRandoms :
                  magics' = [magics EXCEPT
                                !.table = run.table,
                                !.last_used = run.last_used,
                                !.indices = run.indices,
                                !.magic.magic = magic_number(random, 64 - popcount(magics.magic.mask)),
                                !.tries = magics.tries + 1]
          ELSE magics' = [magics EXCEPT !.table = run.table,
                                        !.last_used = run.last_used,
                                        !.indices = run.indices,
                                        !.found = TRUE]
    /\ lastOp' = "search_magic"
    /\ UNCHANGED <<pos, hash, eval, stack, undone, perft, fen, pawn_table, history, returned>>

\* get_bishop_attacks_from(from, blockers) or get_rook_attacks_from(from,
\* blockers) once the square is initialized.
GetAttacksFrom ==
    /\ magics.piece /= None
    /\ magics.found
    /\ \E blockers \in LookupBlockers :
          returned' = [of |-> "get_attacks_from", blockers |-> blockers,
                       index |-> Magic_index(magics.magic, blockers),
                       value |-> magic_attacks_from(magics.magic, magics.table, blockers)]
    /\ lastOp' = "get_attacks_from"
    /\ UNCHANGED <<pos, hash, eval, stack, undone, perft, fen, pawn_table, history, magics>>

NextMagic == FirstMagic \/ SearchMagic \/ GetAttacksFrom

SpecMagic == MagicInit /\ [][NextMagic]_vars

(***************************************************************************)
(* Properties                                                              *)
(***************************************************************************)
\* C1: make_move(m) followed by unmake_move(m, d), d the details saved
\* before the move, leaves every field of Position (color, bb, pieces,
\* all_pieces, king_sq, white_to_move, fullmove, details) as it was before
\* make_move, for every pseudo-legal move of either colour.
T_C1_UnmakeRestoresPosition ==
    lastOp = "unmake_move" => pos = undone.pre.pos

\* An en-passant capture by Black has been made and unmade.
W_C1_BlackEnPassantUnmade ==
    lastOp = "unmake_move" /\ undone.kind = "en_passant" /\ ~undone.white

\* C2: Hasher::make_move on the position before the move followed by
\* Hasher::unmake_move on the position after it, with the saved details,
\* restores Hasher.hash.
T_C2_UnmakeRestoresHash ==
    lastOp = "unmake_move" => hash = undone.pre.hash

\* A capture by Black that changed the castling mask has been made and
\* unmade.
W_C2_BlackCaptureChangingCastlingUnmade ==
    /\ lastOp = "unmake_move"
    /\ undone.kind = "capture"
    /\ ~undone.white
    /\ undone.made.castling /= undone.pre.pos.details.castling

\* C3: Eval::make_move on the position before the move followed by
\* Eval::unmake_move on the position after it restores the ten material
\* counters, pst[0] and pst[1] and both pawns-per-file arrays; Eval keeps
\* nothing else that the two change.
T_C3_UnmakeRestoresEval ==
    lastOp = "unmake_move" =>
        /\ eval.material = undone.pre.eval.material
        /\ eval.pst = undone.pre.eval.pst
        /\ eval.positional = undone.pre.eval.positional
        /\ DOMAIN eval = {"material", "pst", "positional"}

\* A capturing promotion by Black has been made and unmade.
W_C3_BlackCapturePromotionUnmade ==
    lastOp = "unmake_move" /\ undone.kind = "capture_promotion" /\ ~undone.white

\* C4: in every position reached by legal moves, null moves and their
\* unmakes: all_pieces is the union of the six piece bitboards, which are
\* pairwise disjoint; color lies within all_pieces; pieces[1] is
\* all_pieces & color and pieces[0] is all_pieces & ~color; each side has
\* exactly one king and king_sq[side] is its square.
T_C4_PositionInvariants ==
    OnLegalLine =>
        /\ pos.all_pieces = UNION {pos.bb[pc] : pc \in Pieces}
        /\ \A p1, p2 \in Pieces : p1 /= p2 => pos.bb[p1] \cap pos.bb[p2] = {}
        /\ pos.color \subseteq pos.all_pieces
        /\ pos.pieces[1] = pos.all_pieces \cap pos.color
        /\ pos.pieces[0] = pos.all_pieces \ pos.color
        /\ \A side \in {0, 1} : pos.bb[King] \cap pos.pieces[side] = {pos.king_sq[side]}

\* Black has castled queenside after a null move of White.
W_C4_CastledAfterNullmove ==
    /\ lastOp = "make_move"
    /\ Len(stack) = 2
    /\ stack[1].null
    /\ Top.legal
    /\ MoveKind(Top.mov) = "castle_queenside"

\* The keys of the features of a position: every piece on its square, the
\* colour key of every white piece, the side to move if White, the castling
\* mask, and the en-passant file if there is one.
FeatureKeys(p) ==
    UNION {{PieceKey(pc, sq) : sq \in p.bb[pc]} : pc \in Pieces}
    \cup {ColorKey(sq) : sq \in p.color}
    \cup (IF p.white_to_move THEN {WhiteToMoveKey} ELSE {})
    \cup {CastleKey(p.details.castling)}
    \cup (IF p.details.en_passant /= NO_EP THEN {EnPassantKey(p.details.en_passant)} ELSE {})

\* C5: along any sequence of make_move calls on Position and Hasher in
\* lockstep, the hash differs from the initial hash by exactly the keys of
\* the features (pieces, colour, side to move, castling mask, en-passant
\* file) in which the position differs from the initial position; two
\* sequences ending in the same features end in the same hash.
T_C5_HashIsFeatureDelta ==
    (stack /= <<>> /\ \A i \in 1..Len(stack) : ~stack[i].null) =>
        hash = Xor(stack[1].pre.hash,
                   Xor(FeatureKeys(stack[1].pre.pos), FeatureKeys(pos)))

\* A double push that created an en-passant file and the en-passant capture
\* answering it have been made.
W_C5_EnPassantLineHashed ==
    /\ lastOp = "make_move"
    /\ Len(stack) = 2
    /\ ~stack[1].null
    /\ stack[1].pre.pos.details.en_passant = NO_EP
    /\ MoveKind(Top.mov) = "en_passant"
    /\ Top.legal

\* The squares a piece of type pc standing on sq attacks over the occupancy
\* occ; a pawn attacks the two squares diagonally ahead of it.
AttacksFrom(pc, white, sq, occ) ==
    CASE pc = Pawn -> Step(sq, -1, IF white THEN 1 ELSE -1)
                      \cup Step(sq, 1, IF white THEN 1 ELSE -1)
      [] pc = Knight -> KNIGHT_ATTACKS(sq)
      [] pc = Bishop -> get_bishop_attacks_from(sq, occ)
      [] pc = Rook -> get_rook_attacks_from(sq, occ)
      [] pc = Queen -> get_bishop_attacks_from(sq, occ) \cup get_rook_attacks_from(sq, occ)
      [] pc = King -> KING_ATTACKS(sq)

\* Some piece of the given colour attacks sq in position p.
AttackedBy(p, white, sq) ==
    \E pc \in Pieces : \E from \in p.bb[pc] \cap p.pieces[b2i(white)] :
        sq \in AttacksFrom(pc, white, from, p.all_pieces)


\* C6: for a move m of all_moves in a reachable position P, move_is_legal
\* returns true exactly if after make_move(m) no enemy pawn, knight, bishop,
\* rook, queen or king attacks the king of the side that moved and, for a
\* castling move, neither the king's start square nor the square it passes
\* over is attacked in P (move_is_legal works on copies of all_pieces, the
\* king's square and `them`, so P is what make_move is then applied to).
T_C6_LegalIffKingSafe ==
    lastOp = "make_move" =>
        LET P == Top.pre.pos
            m == Top.mov
            mover == P.white_to_move
            castles == MoveKind(m) \in {"castle_kingside", "castle_queenside"}
            passed == IF m.to > m.from THEN m.from + 1 ELSE m.from - 1
        IN Top.legal <=>
                 /\ \A k \in pos.bb[King] \cap pos.pieces[b2i(mover)] :
                        ~AttackedBy(pos, ~mover, k)
                 /\ castles => /\ ~AttackedBy(P, ~mover, m.from)
                               /\ ~AttackedBy(P, ~mover, passed)

\* An en-passant capture that uncovers an attack along the rank on the
\* capturer's own king was rejected, and made.
W_C6_EnPassantUncoversCheck ==
    lastOp = "make_move" /\ Top.mov.en_passant /\ ~Top.legal

T_C8_EnPassantFile ==
    lastOp = "make_move" =>
        LET P == Top.pre.pos
            m == Top.mov
            wtm == P.white_to_move
            beside == \E s \in P.bb[Pawn] \cap P.pieces[b2i(~wtm)] :
                          /\ rank(s) = rank(m.to)
                          /\ file(s) \in {file(m.to) - 1, file(m.to) + 1}
            created == /\ m.piece = Pawn
                       /\ rank(m.from) = (IF wtm THEN 1 ELSE 6)
                       /\ rank(m.to) = (IF wtm THEN 3 ELSE 4)
                       /\ beside
            toggled == Xor(hash, Top.pre.hash)
        IN /\ pos.details.en_passant = IF created THEN file(m.from) ELSE NO_EP
           /\ \A f \in 0..7 :
                  EnPassantKey(f) \in toggled <=>
                      ((P.details.en_passant = f) /= (created /\ file(m.from) = f))

\* A double push beside an enemy pawn answered by another one: the file is
\* set over a previous file.
W_C8_FileSetOverPreviousFile ==
    /\ lastOp = "make_move"
    /\ Top.pre.pos.details.en_passant /= NO_EP
    /\ pos.details.en_passant /= NO_EP
    /\ pos.details.en_passant /= Top.pre.pos.details.en_passant

\* C9: after make_move(m) a castling bit is set exactly if it was set
\* before and m neither moves the king of the bit's side nor leaves or
\* arrives on the bit's corner (a1, h1, a8, h8); no bit is ever set, so a
\* right lost along a line of moves is not regained.
T_C9_CastlingBits ==
    LET Corner(bit) == CASE bit = CASTLE_WHITE_KSIDE -> SQUARE_H1
                         [] bit = CASTLE_WHITE_QSIDE -> SQUARE_A1
                         [] bit = CASTLE_BLACK_KSIDE -> SQUARE_H8
                         [] bit = CASTLE_BLACK_QSIDE -> SQUARE_A8
        White(bit) == bit \in {CASTLE_WHITE_KSIDE, CASTLE_WHITE_QSIDE}
        Bits == {CASTLE_WHITE_KSIDE, CASTLE_WHITE_QSIDE,
                 CASTLE_BLACK_KSIDE, CASTLE_BLACK_QSIDE}
    IN /\ lastOp = "make_move" =>
              \A bit \in Bits :
                  HasBit(pos.details.castling, bit) <=>
                      /\ HasBit(Top.details.castling, bit)
                      /\ ~(Top.mov.piece = King /\ White(bit) = Top.pre.pos.white_to_move)
                      /\ Top.mov.from /= Corner(bit)
                      /\ Top.mov.to /= Corner(bit)
       /\ pos.details.castling \in 0..15
       /\ \A i \in 1..Len(stack) : \A bit \in Bits :
              HasBit(pos.details.castling, bit) => HasBit(stack[i].details.castling, bit)

\* The rook on a8 has captured the rook on a1: both queenside rights are
\* gone, both kingside rights are kept.
W_C9_RookTakesRookOnCorner ==
    /\ lastOp = "make_move"
    /\ Top.mov.from = SQUARE_A8
    /\ Top.mov.to = SQUARE_A1
    /\ Top.details.castling = 15
    /\ pos.details.castling = CASTLE_WHITE_KSIDE + CASTLE_BLACK_KSIDE

RECURSIVE FenSquares(_)
FenSquares(chars) ==
    IF chars = <<>> THEN <<>>
    ELSE LET c == Head(chars)
             n == IndexOf(c, DigitChars)
         IN (IF c = "/" THEN <<>>
             ELSE IF n /= None THEN [i \in 1..n |-> " "]
             ELSE <<c>>) \o FenSquares(Tail(chars))

\* Position p is the one the FEN text f describes.
FenDescribes(f, p) ==
    LET board == FenSquares(f[1])
        At(sq) == board[(7 - rank(sq)) * 8 + file(sq) + 1]
        white == {sq \in Squares : \E i \in 1..6 : At(sq) = WhitePieceChars[i]}
        black == {sq \in Squares : \E i \in 1..6 : At(sq) = PieceChars[i]}
        Right(c, bit) == HasBit(p.details.castling, bit) <=> (\E i \in 1..Len(f[3]) : f[3][i] = c)
    IN /\ Len(board) = 64
       /\ \A pc \in Pieces :
             p.bb[pc] = {sq \in Squares : At(sq) \in {PieceChars[pc + 1], WhitePieceChars[pc + 1]}}
       /\ p.color = white
       /\ p.pieces[1] = white
       /\ p.pieces[0] = black
       /\ p.all_pieces = white \cup black
       /\ p.white_to_move = (f[2] = <<"w">>)
       /\ p.details.castling \in 0..15
       /\ Right("K", CASTLE_WHITE_KSIDE)
       /\ Right("Q", CASTLE_WHITE_QSIDE)
       /\ Right("k", CASTLE_BLACK_KSIDE)
       /\ Right("q", CASTLE_BLACK_QSIDE)
       /\ p.details.en_passant =
             (IF Len(f) >= 4 /\ f[4] /= <<"-">>
              THEN CHOOSE i \in 0..7 : FileChars[i + 1] = f[4][1]
              ELSE 255)
       /\ p.details.halfmove =
             (IF Len(f) >= 5
              THEN (CHOOSE h \in FenHalfmoves : h.text = f[5]).value ELSE 0)
       /\ p.fullmove =
             (IF Len(f) >= 6
              THEN (CHOOSE n \in FenFullmoves : n.text = f[6]).value ELSE 1)
       /\ At(p.king_sq[1]) = "K"
       /\ At(p.king_sq[0]) = "k"

\* C12: Position::from(fen) builds exactly the position the FEN fields
\* describe: bitboards and colour from the board field (ranks 8 to 1, upper
\* case White), side to move, castling mask from the letters of KQkq present,
\* en-passant file from the first character of its field (255 for "-"),
\* halfmove and fullmove (0 and 1 when absent), king_sq on the kings, pieces
\* and all_pieces consistent with color; for the FEN of the standard starting
\* position the result equals STARTING_POSITION in every field.
T_C12_FromFenBuildsDescribedPosition ==
    lastOp = "from" =>
        /\ FenDescribes(fen, pos)
        /\ fen = FEN_START => pos = STARTING_POSITION

\* A FEN without the two clock fields, Black to move, with an en-passant
\* square and only part of the castling rights, has been parsed.
W_C12_ParsedWithoutClocks ==
    /\ lastOp = "from"
    /\ Len(fen) = 4
    /\ fen[2] = <<"b">>
    /\ fen[3] = <<"Q", "k">>
    /\ fen[4] = <<"c", "6">>
    /\ pos.details.en_passant = 2
    /\ pos.fullmove = 1

\* The FEN of the standard starting position has been parsed.
W_C12_StartFenParsed ==
    lastOp = "from" /\ fen = FEN_START /\ pos = STARTING_POSITION

\* e2e4 has just been made with Position::make_move in the starting position.
AfterE2E4 ==
    /\ lastOp = "make_move"
    /\ Len(stack) = 1
    /\ Top.pre.pos = STARTING_POSITION
    /\ Top.mov = Mv(12, 28, Pawn, None, None, FALSE)

\* C13 as stated: after e2e4 from the starting position details.en_passant
\* is 4 (file e), white_to_move is false and details.halfmove is 0.
X_C13_EnPassantFileAfterE2E4 ==
    AfterE2E4 =>
        /\ pos.details.en_passant = 4
        /\ pos.white_to_move = FALSE
        /\ pos.details.halfmove = 0

\* C13, amended: after e2e4 from the starting position details.en_passant
\* is 255, as no black pawn stands on d4 or f4; white_to_move is false and
\* details.halfmove is 0.
T_C13_NoEnPassantAfterE2E4 ==
    AfterE2E4 =>
        /\ pos.details.en_passant = NO_EP
        /\ pos.white_to_move = FALSE
        /\ pos.details.halfmove = 0

\* e2e4 has been played from the starting position and the pawn stands on e4.
W_C13_E2E4Played ==
    AfterE2E4 /\ 28 \in pawns(pos) \cap pos.color

\* The enemy pieces that attack the king of the side to move in position p.
KingAttackers(p) ==
    LET wtm == p.white_to_move
        king == CHOOSE sq \in p.bb[King] \cap p.pieces[b2i(wtm)] : TRUE
    IN {from \in p.pieces[1 - b2i(wtm)] :
          \E pc \in Pieces :
             from \in p.bb[pc] /\ king \in AttacksFrom(pc, ~wtm, from, p.all_pieces)}

\* C14: whenever the king of the side to move is attacked by two or more
\* enemy pieces, every move good_captures emits, into the good list and
\* into the bad list, and every move quiet_moves emits has piece == King.
T_C14_DoubleCheckOnlyKingMoves ==
    Cardinality(KingAttackers(pos)) >= 2 =>
        LET g == good_captures(pos, <<>>, <<>>)
        IN /\ \A i \in 1..Len(g.moves) : g.moves[i].piece = King
           /\ \A i \in 1..Len(g.bad_moves) : g.bad_moves[i].piece = King
           /\ \A i \in 1..Len(quiet_moves(pos)) : quiet_moves(pos)[i].piece = King

\* 4k3/8/8/8/8/3n4/5q2/4K3, White to move: the king is attacked by knight
\* and queen, the capture of the queen goes to the bad list and the king has
\* quiet moves.
W_C14_DoubleCheckWithBadCaptureAndQuietMoves ==
    /\ pos = Position_from(FEN_DOUBLE_CHECK)
    /\ KingAttackers(pos) = {13, 19}
    /\ good_captures(pos, <<>>, <<>>).bad_moves = <<Mv(4, 13, King, Queen, None, FALSE)>>
    /\ quiet_moves(pos) /= <<>>

\* C15 as stated: when the side to move is in check by exactly one piece,
\* quiet_moves emits only king moves to empty squares and no quiet move of a
\* pawn, knight, bishop, rook or queen.
X_C15_SingleCheckOnlyKingMoves ==
    Cardinality(KingAttackers(pos)) = 1 =>
        \A i \in 1..Len(quiet_moves(pos)) :
            /\ quiet_moves(pos)[i].piece = King
            /\ quiet_moves(pos)[i].to \notin pos.all_pieces

\* The pseudo-legal moves of position p that capture nothing, promote
\* nothing and do not put a pawn on the en-passant square.
QuietAmongAll(p) ==
    LET ep == IF p.details.en_passant = NO_EP THEN None
              ELSE file_rank(p.details.en_passant, IF p.white_to_move THEN 5 ELSE 2)
    IN SelectSeq(all_moves(p),
                 LAMBDA m : /\ m.captured = None
                            /\ m.promoted = None
                            /\ ~(m.piece = Pawn /\ m.to = ep))

\* C15, amended: when the side to move is in check by exactly one piece,
\* quiet_moves emits what it emits out of check: every pseudo-legal move,
\* of every piece type, that captures nothing, promotes nothing and does not
\* put a pawn on the en-passant square, each to an empty square; quiet moves
\* of pawns, knights, bishops, rooks and queens are included.
T_C15_SingleCheckAllQuietMoves ==
    Cardinality(KingAttackers(pos)) = 1 =>
        /\ quiet_moves(pos) = QuietAmongAll(pos)
        /\ \A i \in 1..Len(quiet_moves(pos)) : quiet_moves(pos)[i].to \notin pos.all_pieces

\* 4k3/8/8/7R/1b6/8/3N4/4K2r, White to move: the rook on h1 alone gives
\* check and quiet_moves emits a move of the white rook.
W_C15_SingleCheckWithQuietRookMove ==
    /\ pos = Position_from(FEN_PIN)
    /\ KingAttackers(pos) = {7}
    /\ \E i \in 1..Len(quiet_moves(pos)) : quiet_moves(pos)[i].piece = Rook

\* What the bad lists hold when good_captures is called: one move with its
\* score, left from an earlier call.
PriorBadMoves == <<Mv(0, 1, Rook, Queen, None, FALSE)>>

PriorBadScores == <<mvv_lva_score(PriorBadMoves[1])>>

\* How often x occurs in seq.
Count(x, seq) == Cardinality({i \in 1..Len(seq) : seq[i] = x})

\* The moves good_captures appended to the bad list.
AppendedBad(g) == SubSeq(g.bad_moves, Len(PriorBadMoves) + 1, Len(g.bad_moves))

\* C16: when good_captures returns, scores is as long as moves and scores[i]
\* is the MVV-LVA score of moves[i]; every move left in moves has SEE >= 0;
\* every candidate with SEE < 0 has been appended to bad_moves, with its
\* MVV-LVA score at the same index of bad_scores; and every generated
\* candidate is in exactly one of the two lists, as often as it was
\* generated.
T_C16_GoodBadSplit ==
    LET g == good_captures(pos, PriorBadMoves, PriorBadScores)
        cand == capture_candidates(pos)
        bad == AppendedBad(g)
    IN /\ Len(g.scores) = Len(g.moves)
       /\ \A i \in 1..Len(g.moves) :
             /\ g.scores[i] = mvv_lva_score(g.moves[i])
             /\ see(pos, g.moves[i]) >= 0
       /\ SubSeq(g.bad_moves, 1, Len(PriorBadMoves)) = PriorBadMoves
       /\ SubSeq(g.bad_scores, 1, Len(PriorBadScores)) = PriorBadScores
       /\ Len(g.bad_scores) = Len(g.bad_moves)
       /\ \A i \in (Len(PriorBadMoves) + 1)..Len(g.bad_moves) :
             /\ g.bad_scores[i] = mvv_lva_score(g.bad_moves[i])
             /\ see(pos, g.bad_moves[i]) < 0
       /\ Len(cand) = Len(g.moves) + Len(bad)
       /\ \A i \in 1..Len(cand) :
             /\ Count(cand[i], cand) = Count(cand[i], g.moves) + Count(cand[i], bad)
             /\ see(pos, cand[i]) < 0 => Count(cand[i], bad) > 0

\* good_captures has removed a candidate that was not the last one, so that
\* swap_remove changed the order of the moves that stay, and more than one
\* candidate went to the bad list.
W_C16_RemovalReorderedMoves ==
    LET g == good_captures(pos, PriorBadMoves, PriorBadScores)
        cand == capture_candidates(pos)
    IN /\ Len(AppendedBad(g)) >= 2
       /\ Len(g.moves) >= 2
       /\ g.moves /= SelectSeq(cand, LAMBDA m : see(pos, m) >= 0)

\* An enemy piece attacks the destination of mov in position p once the
\* square mov leaves is empty.
DestinationAttacked(p, mov) ==
    LET enemy == ~p.white_to_move
        occ == p.all_pieces \ {mov.from}
    IN \E pc \in Pieces : \E from \in p.bb[pc] \cap p.pieces[b2i(enemy)] :
          mov.to \in AttacksFrom(pc, enemy, from, occ)

\* C17: for a capture m whose destination no enemy piece attacks once
\* m.from is vacated, see(m) is the value of the captured piece plus the
\* value of the promoted piece (or of the piece itself) minus the value of
\* the piece; in 4k3/8/8/3p4/4P3/8/8/4K3 with White to move see(e4xd5) is
\* 100.
T_C17_SeeOfUndefendedCapture ==
    /\ \A m \in Range(all_moves(pos)) :
          (m.captured /= None /\ ~DestinationAttacked(pos, m)) =>
              see(pos, m) = value(m.captured)
                            + (value(IF m.promoted /= None THEN m.promoted ELSE m.piece)
                               - value(m.piece))
    /\ pos = Position_from(FEN_SEE) =>
          see(pos, Mv(28, 35, Pawn, Pawn, None, FALSE)) = 100

\* 4k3/8/8/3p4/4P3/8/8/4K3, White to move: e4xd5 is generated and nothing
\* attacks d5.
W_C17_PawnTakesUndefendedPawn ==
    /\ pos = Position_from(FEN_SEE)
    /\ Mv(28, 35, Pawn, Pawn, None, FALSE) \in Range(all_moves(pos))
    /\ ~DestinationAttacked(pos, Mv(28, 35, Pawn, Pawn, None, FALSE))

\* A pawn captures and promotes on a square no enemy piece attacks.
W_C17_UndefendedCapturePromotion ==
    \E m \in Range(all_moves(pos)) :
        m.captured /= None /\ m.promoted = Queen /\ ~DestinationAttacked(pos, m)

\* The knights and bishops of one side in material m, as <<knights, bishops>>.
Minors(m, white) ==
    IF white THEN <<m.white_knights, m.white_bishops>>
    ELSE <<m.black_knights, m.black_bishops>>

\* Material m has a pawn, a rook or a queen of either colour.
HasPawnRookQueen(m) ==
    m.white_pawns + m.white_rooks + m.white_queens
    + m.black_pawns + m.black_rooks + m.black_queens > 0

\* C18: Material::is_draw returns true for K vs K, K+B vs K, K+N vs K and
\* K+N+N vs K, whichever colour holds the minor pieces; false for K+B vs
\* K+N; and false whenever a pawn, rook or queen of either colour is on the
\* board.
T_C18_InsufficientMaterial ==
    lastOp = "is_draw" =>
        LET m == eval.material
        IN /\ HasPawnRookQueen(m) => returned.value = FALSE
           /\ \A white \in BOOLEAN :
                 (/\ ~HasPawnRookQueen(m)
                  /\ Minors(m, ~white) = <<0, 0>>
                  /\ Minors(m, white) \in {<<0, 0>>, <<0, 1>>, <<1, 0>>, <<2, 0>>})
                 => returned.value = TRUE
           /\ \A white \in BOOLEAN :
                 (/\ ~HasPawnRookQueen(m)
                  /\ Minors(m, white) = <<0, 1>>
                  /\ Minors(m, ~white) = <<1, 0>>)
                 => returned.value = FALSE

\* is_draw has returned true for a lone white king against king and two
\* knights.
W_C18_TwoBlackKnightsDrawn ==
    /\ lastOp = "is_draw"
    /\ ~HasPawnRookQueen(eval.material)
    /\ Minors(eval.material, TRUE) = <<0, 0>>
    /\ Minors(eval.material, FALSE) = <<2, 0>>
    /\ returned.value = TRUE

\* C19: whatever calls of Eval::pawns came before and whatever the pawn
\* hashes were, Eval::pawns(pos, h) returns (white mg - black mg, white eg -
\* black eg) as pawns_for_side computes them on pos; it returns a stored
\* entry only if the entry's pawn bitboard and its colour-and-pawn bitboard
\* equal those of pos.
T_C19_PawnCacheTransparent ==
    lastOp = "pawns" =>
        /\ returned.value =
              <<pawns_for_side(pos, TRUE)[1] - pawns_for_side(pos, FALSE)[1],
                pawns_for_side(pos, TRUE)[2] - pawns_for_side(pos, FALSE)[2]>>
        /\ returned.hit =>
              /\ returned.found.pawns = pos.bb[Pawn]
              /\ returned.found.color = pos.color \cap pos.bb[Pawn]

\* A call found in its slot an entry written for the same pawn squares with
\* other colours and another score, and did not return it.
W_C19_SamePawnsOtherColours ==
    /\ lastOp = "pawns"
    /\ returned.found.pawns = pos.bb[Pawn]
    /\ returned.found.color /= pos.color \cap pos.bb[Pawn]
    /\ <<returned.found.mg, returned.found.eg>> /= returned.value
    /\ ~returned.hit

\* A call for a position without pawns was answered from an entry that was
\* never written.
W_C19_NoPawnsAnsweredByInitialEntry ==
    /\ lastOp = "pawns"
    /\ pos.bb[Pawn] = {}
    /\ returned.hit
    /\ returned.value = <<0, 0>>
    /\ pawn_table = <<>>

\* The entries of the history table that can differ from 0, and one that
\* is never written.
HistoryKeys ==
    {<<side, mov.from, mov.to>> : side \in {0, 1}, mov \in HistoryMoves} \cup {<<1, 0, 63>>}

\* C20: increase_score(side, m, depth) adds the square of depth / INC_PLY to
\* the entry [side][m.from][m.to]; if the entry then exceeds
\* Score::max_value(), every entry of the table is replaced by its quotient
\* by 4, and otherwise no other entry changes; get_score(side, m) returns
\* the current entry.
T_C20_HistoryIncreaseAndRescale ==
    /\ lastOp = "increase_score" =>
          LET key == <<b2i(returned.white), returned.mov.from, returned.mov.to>>
              Old(k) == IF k \in DOMAIN returned.before THEN returned.before[k] ELSE 0
              New(k) == IF k \in DOMAIN history THEN history[k] ELSE 0
              plies == CHOOSE n \in 0..511 :
                          n * INC_PLY <= returned.depth /\ returned.depth < (n + 1) * INC_PLY
              Raised(k) == IF k = key THEN Old(k) + plies * plies ELSE Old(k)
          IN /\ DOMAIN history \subseteq HistoryKeys
             /\ \A k \in HistoryKeys :
                   IF Raised(key) > 32767
                   THEN 4 * New(k) <= Raised(k) /\ Raised(k) < 4 * New(k) + 4
                   ELSE New(k) = Raised(k)
    /\ lastOp = "get_score" =>
          returned.value =
              (LET k == <<b2i(returned.white), returned.mov.from, returned.mov.to>>
               IN IF k \in DOMAIN history THEN history[k] ELSE 0)

\* increase_score has pushed an entry over Score::max_value() and the table
\* was rescaled, another entry that was not 0 with it.
W_C20_RescaledWithOtherEntry ==
    /\ lastOp = "increase_score"
    /\ LET key == <<b2i(returned.white), returned.mov.from, returned.mov.to>>
       IN /\ key \in DOMAIN returned.before
          /\ returned.before[key] <= 32767
          /\ 4 * history[key] > 32767 - 3
          /\ \E k \in DOMAIN returned.before :
                k /= key /\ returned.before[k] >= 4 /\ history[k] < returned.before[k]

\* C21: Eval::score is total: in every position every 16-bit result of its
\* arithmetic, the products pawns_mg * phase, pawns_eg * (62 - phase),
\* king_mg * phase, king_eg * (62 - phase) and the running sum among them,
\* lies within -32768..32767.
X_C21_ScoreStaysWithin16Bits ==
    LET s == Eval_score(eval, pawn_table, pos, 0)
    IN \A i \in 1..Len(s.steps) : s.steps[i] \in -32768..32767

\* The characters of the fields that Position::from does not recognise:
\* pairs <<field, character>>.
Unrecognised(f) ==
    {<<"position", f[1][i]>> : i \in {i \in 1..Len(f[1]) :
        f[1][i] \notin {"P", "N", "B", "R", "Q", "K", "p", "n", "b", "r", "q", "k", "/",
                        "1", "2", "3", "4", "5", "6", "7", "8"}}}
    \cup (IF Len(f) < 3 THEN {}
          ELSE {<<"castling", f[3][i]>> : i \in {i \in 1..Len(f[3]) :
                   f[3][i] \notin {"K", "Q", "k", "q", "-"}}})
    \cup (IF Len(f) < 4 \/ f[4] = <<"-">> THEN {}
          ELSE {<<"en passant", f[4][i]>> : i \in {i \in 1..Len(f[4]) :
                   \/ i > 2
                   \/ i = 1 /\ f[4][i] \notin {"a", "b", "c", "d", "e", "f", "g", "h"}
                   \/ i = 2 /\ f[4][i] \notin {"1", "2", "3", "4", "5", "6", "7", "8"}}})

\* Is alg an impossible coordinate pair in position p: a character outside
\* a-h and 1-8, or no piece on the from-square
Impossible(p, alg) ==
    \/ Len(alg) < 4
    \/ \E i \in {1, 3} : alg[i] \notin {"a", "b", "c", "d", "e", "f", "g", "h"}
    \/ \E i \in {2, 4} : alg[i] \notin {"1", "2", "3", "4", "5", "6", "7", "8"}
    \/ LET sq(i) == file_rank(IndexOf(alg[i], FileChars),
                              IndexOf(alg[i + 1], <<"1", "2", "3", "4", "5", "6", "7", "8">>))
       IN ~Has(p.all_pieces, sq(1))

\* C22: bad input is reported as an error value and never as a panic:
\* Position::from on a text with an unrecognised character in the board,
\* castling or en-passant field yields ParseError{character, field}, and
\* Move::from_algebraic on an impossible coordinate pair yields BadMove.
X_C22_BadInputYieldsErrorValue ==
    /\ lastOp = "from" /\ Unrecognised(fen) /= {} =>
          /\ ~IsPanic(pos)
          /\ \E u \in Unrecognised(fen) :
                pos = [error |-> "ParseError", character |-> u[2], field |-> u[1]]
    /\ lastOp = "from_algebraic" /\ Impossible(pos, returned.alg) =>
          /\ ~IsPanic(returned.value)
          /\ returned.value = [error |-> "BadMove"]

\* The opponent of side has, by the material counters of Eval, no queen and
\* at most one rook.
FewHeavyPieces(white) ==
    IF white THEN eval.material.black_queens = 0 /\ eval.material.black_rooks <= 1
    ELSE eval.material.white_queens = 0 /\ eval.material.white_rooks <= 1

\* The number of steps from sq to the nearest of the four central squares,
\* king steps counted.
StepsToCentre(sq) ==
    LET Away(x) == IF x <= 3 THEN 3 - x ELSE x - 4
    IN IF Away(file(sq)) >= Away(rank(sq)) THEN Away(file(sq)) ELSE Away(rank(sq))

\* C23: for White and for Black, whenever the opponent has no queen and at
\* most one rook by Eval.material, king_safety_for_side returns exactly
\* (0, -5 * CENTER_DISTANCE[square of the side's king]) and evaluates neither
\* the pawn shield nor the file terms.
T_C23_KingSafetySkipped ==
    \A white \in BOOLEAN :
        FewHeavyPieces(white) =>
            LET r == king_safety_for_side(eval.material, pos, white)
            IN /\ r.mg = 0
               /\ r.eg = (0 - 5) * StepsToCentre(pos.king_sq[b2i(white)])
               /\ ~r.shield

\* A legal capture has taken the opponent's queen or second rook: the king
\* safety of the capturing side was evaluated in full before the move and
\* is skipped after it.
W_C23_CaptureStartsSkipping ==
    /\ lastOp = "make_move"
    /\ Top.legal
    /\ Top.mov.captured \in {Rook, Queen}
    /\ FewHeavyPieces(~pos.white_to_move)
    /\ king_safety_for_side(Top.pre.eval.material, Top.pre.pos, ~pos.white_to_move).shield
    /\ king_safety_for_side(eval.material, pos, ~pos.white_to_move).eg < 0

\* The good list and the bad list of good_captures called with empty
\* buffers, followed by the list of quiet_moves.
GoodBadQuiet(p) ==
    LET g == good_captures(p, <<>>, <<>>)
    IN g.moves \o g.bad_moves \o quiet_moves(p)

\* C24: in every position, in check or not, with all four buffers empty on
\* entry, every legal move (a move of all_moves() that move_is_legal
\* accepts) is in exactly one of the good list of good_captures, its bad
\* list and the list of quiet_moves, and the three lists hold no move that
\* all_moves() does not hold.
T_C24_StagedListsPartitionLegalMoves ==
    LET three == GoodBadQuiet(pos)
        all == Range(all_moves(pos))
    IN /\ \A m \in all : move_is_legal(pos, m) => Count(m, three) = 1
       /\ Range(three) \subseteq all

\* The side to move is in check by one piece and has a legal move in the
\* good list and one in the quiet list, and all_moves() holds moves that
\* are in none of the lists.
W_C24_SingleCheckStaged ==
    LET g == good_captures(pos, <<>>, <<>>)
    IN /\ Cardinality(KingAttackers(pos)) = 1
       /\ \E m \in Range(g.moves) : move_is_legal(pos, m)
       /\ \E m \in Range(quiet_moves(pos)) : move_is_legal(pos, m)
       /\ \E m \in Range(all_moves(pos)) : m \notin Range(GoodBadQuiet(pos))

\* C25: for every position P and every legal move m, move_will_check(m)
\* computed in P is true exactly if, after make_move(m), the side then to
\* move is in check: by the moved piece, by a piece the move uncovered (a
\* king move and the pawn taken en passant included), by the promoted piece
\* or by the rook of a castling.
T_C25_MoveWillCheckAgreesWithMake ==
    lastOp = "make_move" /\ Top.legal =>
        (move_will_check(Top.pre.pos, Top.mov) <=> in_check(pos))

\* A legal promotion has been made that gives check from the promotion
\* square.
W_C25_PromotionGivesCheck ==
    /\ lastOp = "make_move" /\ Top.legal
    /\ Top.mov.promoted /= None
    /\ in_check(pos)
    /\ move_will_check(Top.pre.pos, Top.mov)

\* A legal move has been made that gives check by uncovering a slider: the
\* moved piece does not attack the king from its new square.
W_C25_DiscoveredCheck ==
    /\ lastOp = "make_move" /\ Top.legal
    /\ in_check(pos)
    /\ move_will_check(Top.pre.pos, Top.mov)
    /\ Top.mov.to \notin KingAttackers(pos)

\* C26: after any sequence of make_move and unmake_move applied in lockstep
\* to a Position and to the Eval built from it, the material counters,
\* pst[0] and pst[1] and the pawns-per-file arrays of the Eval equal those
\* of Eval::from of the current position.
T_C26_IncrementalEvalIsEvalFrom ==
    LET fresh == Eval_from(pos)
    IN /\ eval.material = fresh.material
       /\ eval.pst[0] = fresh.pst[0] /\ eval.pst[1] = fresh.pst[1]
       /\ eval.positional.white_pawns_per_file = fresh.positional.white_pawns_per_file
       /\ eval.positional.black_pawns_per_file = fresh.positional.black_pawns_per_file

\* A legal castling has been unmade on top of a move that is still made: two
\* makes and an unmake, the Eval of the root changed by the first move.
W_C26_CastlingUnmadeOverMove ==
    /\ lastOp = "unmake_move"
    /\ undone.legal
    /\ undone.kind \in {"castle_kingside", "castle_queenside"}
    /\ Len(stack) = 1
    /\ eval /= Top.pre.eval

\* The pieces of side `white` among allowed that attack sq, the lines of the
\* sliders taken over the occupancy allowed.
Attackers(p, sq, allowed, white) ==
    {s \in p.pieces[b2i(white)] \cap allowed :
        sq \in AttacksFrom(find_piece(p, s), white, s, allowed)}

\* The exchange on sq as a game: the side `white` either declines (0) or
\* captures the occupier with one of its attackers of the cheapest type
\* (a pawn that reaches the last rank becomes a queen), the attackers being
\* those over the pieces still allowed; the other side then does the same.
RECURSIVE Exchange(_, _, _, _, _)
Exchange(p, sq, occupier, allowed, white) ==
    LET att == Attackers(p, sq, allowed, white)
    IN IF att = {} THEN 0
       ELSE LET cheapest == CHOOSE t \in Pieces :
                               /\ \E s \in att : find_piece(p, s) = t
                               /\ \A s \in att : find_piece(p, s) >= t
                after == IF cheapest = Pawn /\ rank(sq) = (IF white THEN 7 ELSE 0)
                         THEN Queen ELSE cheapest
                Gain(s) == value(occupier) + value(after) - value(cheapest)
                           - Exchange(p, sq, after, allowed \ {s}, ~white)
                best == CHOOSE g \in {Gain(s) : s \in {s \in att : find_piece(p, s) = cheapest}} :
                           \A s \in {s \in att : find_piece(p, s) = cheapest} : Gain(s) <= g
            IN IF best > 0 THEN best ELSE 0

\* C27: see and see_square recompute the attackers at every level from
\* allowed_pieces, so that a slider standing behind a piece that has
\* captured, or behind the square the move left, attacks at the deeper
\* levels; at each level only the attackers of the cheapest attacking type,
\* in the order pawn, knight, bishop, rook, queen, king, are tried; and a
\* side may decline to capture, which is worth 0.
T_C27_SeeIsExchangeWithXRays ==
    \A m \in Range(all_moves(pos)) :
        see(pos, m) =
            (IF m.captured = None THEN 0 ELSE value(m.captured))
            + value(IF m.promoted = None THEN m.piece ELSE m.promoted) - value(m.piece)
            - Exchange(pos, m.to, IF m.promoted = None THEN m.piece ELSE m.promoted,
                       pos.all_pieces \ {m.from},
                       ~pos.white_to_move)

\* A rook takes a pawn that a pawn defends, with a second rook behind it on
\* the file: the second rook attacks the square only once the first has
\* left, and its recapture makes the exchange cost 300 instead of 400.
W_C27_SecondRookRecaptures ==
    /\ pos = Position_from(FEN_XRAY)
    /\ LET m == Mv(12, 36, Rook, Pawn, None, FALSE)
       IN /\ m \in Range(all_moves(pos))
          /\ 4 \notin Attackers(pos, 36, pos.all_pieces, TRUE)
          /\ 4 \in Attackers(pos, 36, pos.all_pieces \ {12}, TRUE)
          /\ see(pos, m) = 0 - 300

\* The calls of see_square made for see(m) in position p.
SeeCalls(p, m) ==
    see_square_calls(p, m.to, IF m.promoted = None THEN m.piece ELSE m.promoted,
                     Xor(p.all_pieces, to_bb(m.from) \ to_bb(m.to)), ~p.white_to_move, 0)

\* C28: see(m) terminates: every recursive call of see_square has one
\* occupied square fewer in allowed_pieces, so the depth is at most the
\* number of pieces; every result v of see_square satisfies
\* 0 <= v <= value(occupier) + value(Queen) - value(Pawn), hence see(m) is
\* at most the value of the captured piece plus the promotion gain, and no
\* result leaves the 16-bit range.
T_C28_SeeBounded ==
    \A m \in Range(all_moves(pos)) :
        LET gain == (IF m.captured = None THEN 0 ELSE value(m.captured))
                    + value(IF m.promoted = None THEN m.piece ELSE m.promoted)
                    - value(m.piece)
        IN /\ \A c \in SeeCalls(pos, m) :
                 /\ c.allowed_pieces \subseteq pos.all_pieces
                 /\ popcount(c.allowed_pieces) = popcount(pos.all_pieces) - 1 - c.level
                 /\ c.level < popcount(pos.all_pieces)
                 /\ 0 <= c.result
                 /\ c.result <= value(c.occupier) + value(Queen) - value(Pawn)
           /\ see(pos, m) <= gain
           /\ see(pos, m) \in -32768..32767
           /\ gain \in -32768..32767

\* An exchange three captures long: see_square has called itself twice
\* below the first call and the capturing side loses material by a capture
\* it is free to make.
W_C28_ThreeLevels ==
    \E m \in Range(all_moves(pos)) :
        /\ m.captured /= None
        /\ see(pos, m) < 0
        /\ \E c \in SeeCalls(pos, m) : c.level = 2
        /\ \E c \in SeeCalls(pos, m) : c.level = 1 /\ c.result > 0

\* The castling moves among the moves MoveGenerator::king emits for targets:
\* the king moves two files.
CastlingsEmitted(p, targets) ==
    {m \in Range(gen_king(p, targets)) : m.to = m.from + 2 \/ m.from = m.to + 2}

\* May the side to move castle to the given side in p by the rules of the
\* generator: the right is set, the squares between king and rook (f and g,
\* or b, c and d) are empty and an own rook stands on the corner.
MayCastle(p, kside) ==
    LET w == p.white_to_move
        back == IF w THEN 0 ELSE 56
        bit == IF w THEN (IF kside THEN CASTLE_WHITE_KSIDE ELSE CASTLE_WHITE_QSIDE)
               ELSE (IF kside THEN CASTLE_BLACK_KSIDE ELSE CASTLE_BLACK_QSIDE)
        between == IF kside THEN {back + 5, back + 6} ELSE {back + 1, back + 2, back + 3}
        corner == IF kside THEN back + 7 ELSE back
    IN /\ (p.details.castling \div bit) % 2 = 1
       /\ between \cap p.all_pieces = {}
       /\ corner \in p.bb[Rook] \cap p.pieces[b2i(w)]

\* C29: MoveGenerator::king emits a castling exactly if its right is set,
\* the squares between king and rook are empty, an own rook stands on the
\* corner and the king's destination is among the targets; and in every
\* position reached by make_move and unmake_move a set castling right
\* implies that side's king on e1 or e8 and its rook on the corner, so
\* that a castling is only generated from e1 or e8, to g1, c1, g8 or c8.
T_C29_CastlingGeneration ==
    LET w == pos.white_to_move
        home == IF w THEN 4 ELSE 60
        capture_targets == pos.pieces[1 - b2i(w)] \cap pos.all_pieces
        quiet_targets == Squares \ pos.all_pieces
        all_targets == Squares \ pos.pieces[b2i(w)]
        Castling(kside) ==
            Mv(home, IF kside THEN home + 2 ELSE home - 2, King, None, None, FALSE)
    IN /\ \A targets \in {capture_targets, quiet_targets, all_targets} :
             /\ CastlingsEmitted(pos, targets) \subseteq {Castling(TRUE), Castling(FALSE)}
             /\ \A kside \in BOOLEAN :
                   Castling(kside) \in CastlingsEmitted(pos, targets)
                   <=> (MayCastle(pos, kside) /\ Castling(kside).to \in targets)
       /\ \A white \in BOOLEAN : \A kside \in BOOLEAN :
             LET bit == IF white
                        THEN (IF kside THEN CASTLE_WHITE_KSIDE ELSE CASTLE_WHITE_QSIDE)
                        ELSE (IF kside THEN CASTLE_BLACK_KSIDE ELSE CASTLE_BLACK_QSIDE)
                 back == IF white THEN 0 ELSE 56
             IN (pos.details.castling \div bit) % 2 = 1 =>
                   /\ pos.king_sq[b2i(white)] = back + 4
                   /\ back + 4 \in pos.bb[King] \cap pos.pieces[b2i(white)]
                   /\ (IF kside THEN back + 7 ELSE back) \in pos.bb[Rook] \cap pos.pieces[b2i(white)]

\* A move has been made after which the side to move has both rights, may
\* castle to one side only because a piece stands between king and rook on
\* the other, and the generator emits that castling for the quiet targets
\* and not for the capture targets.
W_C29_OneSideBlocked ==
    /\ lastOp = "make_move"
    /\ MayCastle(pos, TRUE) /= MayCastle(pos, FALSE)
    /\ Cardinality(CastlingsEmitted(pos, Squares \ pos.all_pieces)) = 1
    /\ CastlingsEmitted(pos, pos.pieces[1 - b2i(pos.white_to_move)]) = {}
    /\ LET w == pos.white_to_move
       IN /\ (pos.details.castling \div (IF w THEN CASTLE_WHITE_KSIDE ELSE CASTLE_BLACK_KSIDE)) % 2 = 1
          /\ (pos.details.castling \div (IF w THEN CASTLE_WHITE_QSIDE ELSE CASTLE_BLACK_QSIDE)) % 2 = 1

\* C30: for every position P and every move m of all_moves(),
\* Move::from_algebraic(P, m.to_algebraic()) is m again, piece, captured,
\* promoted and en_passant included; the text has four characters, or five
\* exactly if m promotes.
T_C30_AlgebraicRoundTrip ==
    \A m \in Range(all_moves(pos)) :
        /\ from_algebraic(pos, to_algebraic(m)) = m
        /\ Len(to_algebraic(m)) = (IF m.promoted = None THEN 4 ELSE 5)

\* The position offers an en-passant capture, and a text that decodes to a
\* move with the en-passant flag and a captured pawn on an empty square.
W_C30_EnPassantDecoded ==
    \E m \in Range(all_moves(pos)) :
        /\ m.en_passant
        /\ find_piece(pos, m.to) = None
        /\ Len(to_algebraic(m)) = 4
        /\ from_algebraic(pos, to_algebraic(m)).captured = Pawn

\* C31: in every position reached from the starting position, promotions
\* included, Eval::phase() is 3 * (knights + bishops) + 5 * rooks
\* + 9 * queens summed over both sides and lies in 0..62, so that phase and
\* 62 - phase, the weights Eval::score interpolates with, are not negative.
X_C31_PhaseWithinWeights ==
    LET phase == non_pawn_material(eval.material)
    IN /\ phase = 3 * (popcount(knights(pos)) + popcount(bishops(pos)))
                  + 5 * popcount(rooks(pos)) + 9 * popcount(queens(pos))
       /\ phase \in 0..62
       /\ 62 - phase >= 0

\* C32: once the search of a square has left its loop, every subset of the
\* mask indexes an entry of the slab that holds the subset's own reference
\* attack, whatever earlier tries left in the slab, and a lookup returns
\* bishop_from(from, blockers) or rook_from(from, blockers) for any blockers:
\* the reference attack depends on the blockers only through blockers & mask
\* and not on whether the square itself is occupied.
T_C32_MagicLookupIsReference ==
    /\ (magics.piece /= None /\ magics.found /\ lastOp = "search_magic") =>
          \A i \in 1..magics.size :
              magic_attacks_from(magics.magic, magics.table, magics.occupancy[i])
                  = magics.reference[i]
    /\ (magics.piece /= None /\ returned.of = "get_attacks_from") =>
          LET ref(occ) == reference_attack(magics.piece, magics.from, occ)
              blockers == returned.blockers
          IN /\ returned.value = ref(blockers)
             /\ returned.value = IF magics.piece = Bishop
                                 THEN get_bishop_attacks_from(magics.from, blockers)
                                 ELSE get_rook_attacks_from(magics.from, blockers)
             /\ ref(blockers) = ref(blockers \cap magics.magic.mask)
             /\ ref(blockers \cup {magics.from}) = ref(blockers \ {magics.from})

\* A lookup after a search that needed a second magic, with blockers outside
\* the mask, for a rook on an edge square that is in its own mask and occupied.
W_C32_EdgeRookAfterRetry ==
    /\ magics.piece = Rook
    /\ magics.found
    /\ magics.tries > 1
    /\ magics.from \in magics.magic.mask
    /\ returned.of = "get_attacks_from"
    /\ magics.from \in returned.blockers
    /\ returned.blockers \ magics.magic.mask /= {}
    /\ returned.value /= {}

\* A search that ended with a magic under which two subsets share an entry.
W_C32_SharedEntries ==
    /\ magics.piece /= None
    /\ magics.found
    /\ \E i \in DOMAIN magics.last_used : magics.last_used[i] /= magics.tries

\* The slab of a square: the entries from its offset on, one for every
\* subset of its mask.
Slab(piece, from) ==
    LET offset == slab_offset(piece, from)
    IN offset..(offset + 2 ^ popcount(attack_mask(piece, from)) - 1)

\* The squares followed and the squares initialized next to them.
SlabSquares ==
    MagicSquares \cup {<<sq[1], sq[2] + 1>> : sq \in MagicSquares}
    \cup {<<Bishop, 63>>, <<Rook, 0>>, <<Rook, 63>>}

\* C33: Magic::index of every subset of the mask, of everything the search
\* loop indexed and of every blockers looked up lies in the square's slab
\* [offset, offset + 2 ^ popcount(mask)); the loop pushes exactly
\* 2 ^ popcount(mask) subsets, so that the slabs follow one another without
\* gap or overlap, the rooks' after the bishops'; and with the masks as the
\* code computes them the slabs end at 156,800, the length of MAGIC_TABLE.
T_C33_IndexWithinSlab ==
    magics.piece /= None =>
        LET slab == magics.magic.offset..(magics.magic.offset
                                          + 2 ^ popcount(magics.magic.mask) - 1)
        IN /\ (magics.tries = 0) =>
                 LET slabs == [a \in SlabSquares |-> Slab(a[1], a[2])]
                 IN /\ magics.size = 2 ^ popcount(magics.magic.mask)
                    /\ next_occupancy(magics.occupancy[magics.size], magics.magic.mask) = {}
                    /\ \A i \in 2..magics.size : magics.occupancy[i] /= {}
                    /\ DOMAIN magics.table = slab
                    /\ slab = slabs[<<magics.piece, magics.from>>]
                    /\ DOMAIN magics.last_used = 0..(magics.size - 1)
                    /\ slab_offset(Rook, 0)
                           = slab_offset(Bishop, 63) + 2 ^ popcount(attack_mask(Bishop, 63))
                    /\ slab_offset(Rook, 63) + 2 ^ popcount(attack_mask(Rook, 63))
                           = MAGIC_TABLE_LEN
                    /\ \A a \in SlabSquares : slabs[a] \subseteq 0..(MAGIC_TABLE_LEN - 1)
                    /\ \A a \in SlabSquares, b \in SlabSquares :
                           a /= b => slabs[a] \cap slabs[b] = {}
           /\ (lastOp = "first_magic") =>
                 \A i \in 1..magics.size :
                     Magic_index(magics.magic, magics.occupancy[i]) \in slab
           /\ (lastOp = "search_magic") =>
                 /\ magics.indices /= {}
                 /\ magics.indices \subseteq slab
                 /\ \A index \in magics.indices :
                        index - magics.magic.offset \in DOMAIN magics.last_used
           /\ (lastOp = "get_attacks_from") => returned.index \in slab

\* A rook's search has written the last entry of its slab, and a lookup with
\* pieces outside the mask has read the slab.
W_C33_LastEntryOfSlabWritten ==
    /\ magics.piece = Rook
    /\ magics.found
    /\ lastOp = "get_attacks_from"
    /\ returned.blockers \ magics.magic.mask /= {}
    /\ magics.last_used[magics.size - 1] = magics.tries
    /\ magics.table[magics.magic.offset + magics.size - 1] /= {}

\* A magic on trial whose top byte is not the shift 64 - popcount(mask): bits
\* of the random number are left in it, and the indices use fewer bits.
W_C33_ShiftReadBackLarger ==
    /\ magics.piece /= None
    /\ lastOp = "first_magic"
    /\ magics.magic.magic[8] > 64 - popcount(magics.magic.mask)

\* Material with the two colours swapped.
SwapColours(m) ==
    [white_pawns |-> m.black_pawns, white_knights |-> m.black_knights,
     white_bishops |-> m.black_bishops, white_rooks |-> m.black_rooks,
     white_queens |-> m.black_queens,
     black_pawns |-> m.white_pawns, black_knights |-> m.white_knights,
     black_bishops |-> m.white_bishops, black_rooks |-> m.white_rooks,
     black_queens |-> m.white_queens]

\* C34: with no pawn, rook or queen on the board and a bare king on one side,
\* Material::is_draw returns true only if the other side has no bishop and at
\* most two knights, or exactly one bishop and no knight (so neither
\* K+N+N+N vs K nor K+B+N vs K is a draw), and it returns the same with the
\* colours swapped.
X_C34_BareKingDraws ==
    returned.of = "is_draw" =>
        LET m == eval.material
            light == /\ m.white_pawns = 0 /\ m.white_rooks = 0 /\ m.white_queens = 0
                     /\ m.black_pawns = 0 /\ m.black_rooks = 0 /\ m.black_queens = 0
            Few(n, b) == \/ b = 0 /\ n <= 2
                         \/ b = 1 /\ n = 0
        IN /\ returned.value = is_draw(SwapColours(m))
           /\ (light /\ m.white_knights = 0 /\ m.white_bishops = 0 /\ returned.value)
                 => Few(m.black_knights, m.black_bishops)
           /\ (light /\ m.black_knights = 0 /\ m.black_bishops = 0 /\ returned.value)
                 => Few(m.white_knights, m.white_bishops)

\* The sum of table[sq] over the squares, or of table[sq XOR 0b111000] if
\* mirrored; the XOR turns the rank bits r into 7 - r and keeps the file bits.
RECURSIVE TableSum(_, _, _)
TableSum(table, sqs, mirrored) ==
    IF sqs = <<>> THEN 0
    ELSE LET sq == Head(sqs)
             index == IF mirrored THEN 8 * (7 - (sq \div 8)) + (sq % 8) ELSE sq
         IN table[index + 1] + TableSum(table, Tail(sqs), mirrored)

\* A side's pieces summed over the six tables.
SideTableSum(p, white, mirrored) ==
    LET own == p.pieces[b2i(white)]
    IN TableSum(PAWN_PST, squares(own \cap pawns(p)), mirrored)
       + TableSum(KNIGHT_PST, squares(own \cap knights(p)), mirrored)
       + TableSum(BISHOP_PST, squares(own \cap bishops(p)), mirrored)
       + TableSum(ROOK_PST, squares(own \cap rooks(p)), mirrored)
       + TableSum(QUEEN_PST, squares(own \cap queens(p)), mirrored)
       + TableSum(KING_PST, squares(own \cap kings(p)), mirrored)

\* C35 as stated: pst reads table[sq] for a White piece and
\* table[sq XOR 0b111000] for a Black piece, so that the sums Eval keeps are
\* those of the unmirrored squares for White and of the mirrored for Black.
X_C35_BlackReadsMirrored ==
    OnLegalLine =>
        /\ eval.pst[1] = SideTableSum(pos, TRUE, FALSE)
        /\ eval.pst[0] = SideTableSum(pos, FALSE, TRUE)

\* C35, amended: pst reads table[sq XOR 0b111000] for a White piece and
\* table[sq] for a Black piece: the tables are written with rank 8 first.
\* The sums Eval builds and maintains over make_move and unmake_move are
\* those of the mirrored squares for White and of the squares for Black.
T_C35_WhiteReadsMirrored ==
    OnLegalLine =>
        /\ eval.pst[1] = SideTableSum(pos, TRUE, TRUE)
        /\ eval.pst[0] = SideTableSum(pos, FALSE, FALSE)

\* After a move of each side the two sums differ, and each differs from the
\* sum over the other indexing.
W_C35_BothSidesMoved ==
    /\ OnLegalLine
    /\ lastOp = "make_move"
    /\ Len(stack) = 2
    /\ eval.pst[0] /= eval.pst[1]
    /\ eval.pst[1] /= SideTableSum(pos, TRUE, FALSE)
    /\ eval.pst[0] /= SideTableSum(pos, FALSE, TRUE)

\* C36: move_is_pseudo_legal(m) is true for every move all_moves() generates
\* in the same position: pawn single and double pushes, captures,
\* promotions, en passant and both castlings included.
X_C36_GeneratedMovesArePseudoLegal ==
    \A m \in Range(all_moves(pos)) : move_is_pseudo_legal(pos, m)

\* Move values next to the generated ones: a generated move with one field
\* changed (another piece, another captured piece, a promotion piece, the
\* en-passant flag, the from-square of another own or of no own piece).
FieldVariants(p) ==
    UNION {{[m EXCEPT !.piece = x] : x \in Pieces}
           \cup {[m EXCEPT !.captured = x] : x \in Pieces \cup {None}}
           \cup {[m EXCEPT !.promoted = x] : x \in Pieces \cup {None}}
           \cup {[m EXCEPT !.en_passant = ~@]}
           \cup {[m EXCEPT !.from = x] : x \in {m.to, sq_left(m.from, 1), sq_right(m.from, 1)}
                                                 \cap Squares}
           : m \in Range(all_moves(p))}

\* Every own piece moved to every square, with the captured field as the
\* board has it: sliders through occupied squares, pawns two or more ahead.
GeometryVariants(p) ==
    {Mv(from, to, find_piece(p, from), find_piece(p, to), None, FALSE) :
        from \in us(p, p.white_to_move), to \in Squares}

\* C37: move_is_pseudo_legal(m) is false for every Move value that
\* all_moves() does not generate in the position: a from-square without an
\* own piece or with another piece type, a wrong captured field, a slider
\* through an occupied square, a pawn move to a non-final rank with a
\* promotion piece, a promotion to Pawn or King, a double push through or
\* onto an occupied square, an en-passant move whose from-square is not an
\* own pawn next to the double-stepped pawn.
X_C37_OnlyGeneratedMovesArePseudoLegal ==
    \A m \in FieldVariants(pos) \cup GeometryVariants(pos) :
        m \notin Range(all_moves(pos)) => ~move_is_pseudo_legal(pos, m)

\* C38 as stated: after any sequence of increase_score calls, with any sides,
\* squares and non-negative depths, every entry of the table is at least 0
\* and at most Score::max_value() on return from each call.
X_C38_EntriesWithinScore ==
    \A k \in DOMAIN history : 0 <= history[k] /\ history[k] <= Score_max_value

\* C38, amended: as long as every depth passed to increase_score is at most
\* 313 plies (depth / INC_PLY <= 313, the square at most 98,304), every entry
\* is at least 0 and at most Score::max_value() on return from each call:
\* one division by 4 brings back an entry of up to 32767 + 98,304.
T_C38_EntriesWithinScoreForDepths ==
    Quot(returned.deepest, INC_PLY) <= 313 =>
        \A k \in DOMAIN history : 0 <= history[k] /\ history[k] <= Score_max_value

\* An entry of 32761 raised by a depth of 313 plies and rescaled, another
\* entry rescaled with it.
W_C38_RescaledFromTheTop ==
    /\ returned.of = "increase_score"
    /\ returned.depth = 313 * INC_PLY
    /\ get_score(returned.before, returned.white, returned.mov) = 32761
    /\ get_score(history, returned.white, returned.mov) = 32682
    /\ Cardinality(DOMAIN history) > 1

\* C39: the 8-bit halfmove clock never overflows: whenever make_move with a
\* legal move that is neither a pawn move nor a capture, or make_nullmove,
\* has just run, the clock it incremented was not 255, and the clock is one
\* more than before.
X_C39_ClockNeverOverflows ==
    (stack /= <<>> /\ (lastOp = "make_move" \/ lastOp = "make_nullmove")) =>
        LET before == Top.pre.pos.details.halfmove
            counted == \/ Top.null
                       \/ Top.legal /\ Top.mov.piece /= Pawn /\ Top.mov.captured = None
        IN counted => /\ before /= 255
                      /\ pos.details.halfmove = before + 1
                      /\ pos.details.halfmove \in 0..255

\* C40: what good_captures returns depends on the position only and not on
\* what the buffers held before the call: with bad lists left from an
\* earlier call the four lists are on return what they are with empty ones,
\* and bad_moves holds exactly the position's capture candidates with
\* SEE < 0, bad_scores their scores.
X_C40_BuffersHoldOnlyCurrentMoves ==
    LET g == good_captures(pos, PriorBadMoves, PriorBadScores)
        fresh == good_captures(pos, <<>>, <<>>)
        cand == capture_candidates(pos)
    IN /\ g = fresh
       /\ Len(g.bad_scores) = Len(g.bad_moves)
       /\ \A i \in 1..Len(g.bad_moves) :
             /\ g.bad_moves[i] \in Range(cand)
             /\ see(pos, g.bad_moves[i]) < 0
             /\ g.bad_scores[i] = mvv_lva_score(g.bad_moves[i])
       /\ \A m \in Range(cand) : see(pos, m) < 0 => m \in Range(g.bad_moves)

====
